---- MODULE Spec2Model ----
(***************************************************************************)
(* A model of the epub reader library (package epub): opening an archive,  *)
(* DRM detection, package/spine construction, navigation synthesis with    *)
(* spine ranges, the lazy chapter cache with license detection, and Close. *)
(*                                                                         *)
(* Strings are sequences of one-character strings, so that the path and    *)
(* case operations of the code are computed rather than assumed.           *)
(***************************************************************************)
EXTENDS Integers, Sequences, FiniteSets, TLC

\* ------------------------------------------------------------------------
\* Strings (Go: strings, net/url, path)
\* ------------------------------------------------------------------------

\* a local variable: body applied to the value of v, computed once
With(v, body(_)) == body(v)

UpperChars == <<"A","B","C","D","E","F","G","H","I","J","K","L","M",
                "N","O","P","Q","R","S","T","U","V","W","X","Y","Z">>

LowerChars == <<"a","b","c","d","e","f","g","h","i","j","k","l","m",
                "n","o","p","q","r","s","t","u","v","w","x","y","z">>

\* upper-case letter -> lower-case letter
LowerOf ==
    [c \in {UpperChars[i] : i \in 1..Len(UpperChars)} |->
        LowerChars[CHOOSE i \in 1..Len(UpperChars) : UpperChars[i] = c]]

\* unicode.ToLower on one character
LowerChar(c) == IF c \in DOMAIN LowerOf THEN LowerOf[c] ELSE c

\* strings.ToLower
ToLower(s) == [i \in 1..Len(s) |-> LowerChar(s[i])]

\* strings.HasPrefix
HasPrefix(s, p) == Len(s) >= Len(p) /\ SubSeq(s, 1, Len(p)) = p

\* strings.HasSuffix
HasSuffix(s, p) == Len(s) >= Len(p) /\ SubSeq(s, Len(s) - Len(p) + 1, Len(s)) = p

\* the white space strings.TrimSpace removes
IsSpace(c) == c \in {" ", "\t", "\n", "\r"}

\* strings.TrimSpace
TrimSpace(s) ==
    LET keep == {i \in 1..Len(s) : ~IsSpace(s[i])}
    IN  IF keep = {} THEN <<>>
        ELSE LET lo == CHOOSE i \in keep : \A j \in keep : i <= j
                 hi == CHOOSE i \in keep : \A j \in keep : i >= j
             IN  SubSeq(s, lo, hi)

\* strings.IndexByte, 1-based; 0 when c does not occur
IndexByte(s, c) ==
    LET hits == {i \in 1..Len(s) : s[i] = c}
    IN  IF hits = {} THEN 0 ELSE CHOOSE i \in hits : \A j \in hits : i <= j

\* strings.LastIndexByte, 1-based; 0 when c does not occur
LastIndexByte(s, c) ==
    LET hits == {i \in 1..Len(s) : s[i] = c}
    IN  IF hits = {} THEN 0 ELSE CHOOSE i \in hits : \A j \in hits : i >= j

HexChars == {"0","1","2","3","4","5","6","7","8","9",
             "a","b","c","d","e","f","A","B","C","D","E","F"}

\* the byte a two-digit escape stands for; the escapes the model's inputs use
\* are tabulated, any other byte is rendered as "?"
Unhex(h1, h2) ==
    With(ToLower(<<h1, h2>>), LAMBDA p :
        CASE p = <<"2","0">> -> " "
          [] p = <<"2","3">> -> "#"
          [] p = <<"2","5">> -> "%"
          [] p = <<"2","e">> -> "."
          [] p = <<"2","f">> -> "/"
          [] p = <<"6","1">> -> "a"
          [] p = <<"6","2">> -> "b"
          [] OTHER -> "?")

\* url.PathUnescape, first pass: every % is followed by two hex digits
EscapesValid(s) ==
    \A i \in 1..Len(s) :
        s[i] = "%" => /\ i + 2 <= Len(s)
                      /\ s[i+1] \in HexChars
                      /\ s[i+2] \in HexChars

RECURSIVE UnescapeFrom(_, _)
\* url.PathUnescape, second pass, from position i
UnescapeFrom(s, i) ==
    IF i > Len(s) THEN <<>>
    ELSE IF s[i] = "%" THEN <<Unhex(s[i+1], s[i+2])>> \o UnescapeFrom(s, i + 3)
    ELSE <<s[i]>> \o UnescapeFrom(s, i + 1)

\* url.PathUnescape: [ok, val]
PathUnescape(s) ==
    IF EscapesValid(s) THEN [ok |-> TRUE, val |-> UnescapeFrom(s, 1)]
    ELSE [ok |-> FALSE, val |-> <<>>]

RECURSIVE SplitSlash(_)
\* the elements of s between slashes
SplitSlash(s) ==
    LET i == IndexByte(s, "/")
    IN  IF i = 0 THEN <<s>>
        ELSE <<SubSeq(s, 1, i - 1)>> \o SplitSlash(SubSeq(s, i + 1, Len(s)))

RECURSIVE JoinSlash(_)
\* the elements joined with slashes
JoinSlash(segs) ==
    IF segs = <<>> THEN <<>>
    ELSE IF Len(segs) = 1 THEN segs[1]
    ELSE segs[1] \o <<"/">> \o JoinSlash(Tail(segs))

RECURSIVE CleanSegs(_, _, _)
\* path.Clean's element loop: out is the stack of elements kept so far
CleanSegs(segs, out, rooted) ==
    IF segs = <<>> THEN out
    ELSE LET seg == Head(segs)
             rest == Tail(segs)
         IN  IF seg = <<>> \/ seg = <<".">> THEN CleanSegs(rest, out, rooted)
             ELSE IF seg = <<".", ".">>
             THEN IF out # <<>> /\ out[Len(out)] # <<".", ".">>
                  THEN CleanSegs(rest, SubSeq(out, 1, Len(out) - 1), rooted)
                  ELSE IF ~rooted THEN CleanSegs(rest, Append(out, seg), rooted)
                  ELSE CleanSegs(rest, out, rooted)
             ELSE CleanSegs(rest, Append(out, seg), rooted)

\* path.Clean
PathClean(p) ==
    IF p = <<>> THEN <<".">>
    ELSE With(CleanSegs(SplitSlash(p), <<>>, p[1] = "/"), LAMBDA out :
             IF p[1] = "/" THEN <<"/">> \o JoinSlash(out)
             ELSE IF out = <<>> THEN <<".">>
             ELSE JoinSlash(out))

\* path.Join of two elements
PathJoin(a, b) ==
    IF a = <<>> /\ b = <<>> THEN <<>>
    ELSE PathClean(IF a = <<>> THEN b
                   ELSE IF b = <<>> THEN a
                   ELSE a \o <<"/">> \o b)

\* path.Dir
PathDir(p) == PathClean(SubSeq(p, 1, LastIndexByte(p, "/")))

\* ------------------------------------------------------------------------
\* ziputil.go
\* ------------------------------------------------------------------------

\* isSafePath checking for a leading slash only
isSafePath_slashOnly(p) ==
    With(PathClean(p), LAMBDA cleaned : ~HasPrefix(cleaned, <<"/">>))

isSafePath(p) ==
    With(PathClean(p), LAMBDA cleaned :
        /\ ~HasPrefix(cleaned, <<"/">>)
        /\ ~(cleaned = <<".", ".">> \/ HasPrefix(cleaned, <<".", ".", "/">>)))

resolveRelativePath(basePath, href) ==
    With(TrimSpace(href), LAMBDA trimmed :
    With(PathUnescape(trimmed), LAMBDA un :
    With(IF un.ok THEN un.val ELSE trimmed, LAMBDA decoded :
    With(PathClean(PathJoin(PathDir(basePath), decoded)), LAMBDA cleaned :
        IF HasPrefix(trimmed, <<"/">>) THEN <<>>
        ELSE IF ~isSafePath(cleaned) THEN <<>>
        ELSE cleaned))))


\* a ZIP entry as the reader sees it: its name, its declared size and what
\* its bytes decode to (Data.kind tells which decoder accepts them)
maxDecompressSize == 256 * 1024 * 1024

\* errors.go: the sentinel errors of the package
SentinelErrors ==
    {"ErrDRMProtected", "ErrInvalidEPub", "ErrInvalidChapter", "ErrFileNotFound",
     "ErrNoCover"}

\* the result of readZipFileWithLimit: err names the return statement ("nil"
\* for success), is holds the sentinel errors errors.Is finds in the error's
\* chain, len is the number of bytes returned and taken the number of bytes
\* read from the decompression stream
ReadResult(e, sentinels, n, t) == [err |-> e, is |-> sentinels, len |-> n, taken |-> t]

\* readZipFileWithLimit without the check of the length actually read
readZipFileWithLimit_trustHeader(f, limit, streamFails) ==
    IF ~isSafePath(f.Name) THEN ReadResult("unsafe", {}, 0, 0)
    ELSE IF f.Size > limit THEN ReadResult("toolarge", {}, 0, 0)
    ELSE With(IF f.Actual < limit + 1 THEN f.Actual ELSE limit + 1, LAMBDA n :
             IF streamFails THEN ReadResult("read", {}, 0, n)
             ELSE ReadResult("nil", {}, n, n))

\* readZipFileWithLimit.  f.Size is the declared uncompressed size, f.Actual
\* the length of what the entry decompresses to; when the two differ the zip
\* reader may or may not report an error (streamFails).  Every error is made
\* by fmt.Errorf, and none wraps a sentinel error of the package
readZipFileWithLimit(f, limit, streamFails) ==
    IF ~isSafePath(f.Name) THEN ReadResult("unsafe", {}, 0, 0)
    ELSE IF f.Size > limit THEN ReadResult("toolarge", {}, 0, 0)
    ELSE With(IF f.Actual < limit + 1 THEN f.Actual ELSE limit + 1, LAMBDA n :
             IF streamFails THEN ReadResult("read", {}, 0, n)
             ELSE IF n > limit THEN ReadResult("exceeds", {}, 0, n)
             ELSE ReadResult("nil", {}, n, n))

\* readZipFile: the error, or "nil"
readZipFileErr(f) ==
    IF ~isSafePath(f.Name) THEN "unsafe"
    ELSE IF f.Size > maxDecompressSize THEN "toolarge"
    ELSE "nil"

\* findFileInsensitive without its case-insensitive fallback
findFileInsensitive_exactOnly(zr, name) ==
    LET exact == {i \in 1..Len(zr.File) : zr.File[i].Name = name}
    IN  IF exact # {} THEN CHOOSE i \in exact : \A j \in exact : i <= j ELSE 0

\* findFileInsensitive: the position in zr.File of the entry, 0 for nil
findFileInsensitive(zr, name) ==
    LET exact == {i \in 1..Len(zr.File) : zr.File[i].Name = name}
        fold == {i \in 1..Len(zr.File) : ToLower(zr.File[i].Name) = ToLower(name)}
        First(S) == CHOOSE i \in S : \A j \in S : i <= j
    IN  IF exact # {} THEN First(exact)
        ELSE IF fold # {} THEN First(fold)
        ELSE 0

\* ------------------------------------------------------------------------
\* drm.go
\* ------------------------------------------------------------------------

encryptionFilePath == <<"M","E","T","A","-","I","N","F","/","e","n","c","r","y","p","t","i","o","n",".","x","m","l">>

sinfFilePath == <<"M","E","T","A","-","I","N","F","/","s","i","n","f",".","x","m","l">>

fontObfuscationAlgorithms ==
    {"http://www.idpf.org/2008/embedding", "http://ns.adobe.com/pdf/enc#RC"}

drmSignatures == {"http://ns.adobe.com/adept", "http://readium.org/2014/01/lcp"}

\* strings.Contains(s, sig) over the algorithm and key-info texts the model
\* uses: the texts that carry a signature are the signatures themselves and
\* the ADEPT key element
Contains(s, sig) ==
    \/ s = sig
    \/ s = "<adept:resource xmlns:adept=\"http://ns.adobe.com/adept\"/>"
          /\ sig = "http://ns.adobe.com/adept"

isDRMSignature(s) == \E sig \in drmSignatures : Contains(s, sig)

\* the loop of checkDRM leaving at the first font-obfuscation entry instead
\* of continuing with the next one
checkEntries_stopAtFont(eds, i, fontObfuscation) ==
    IF i > Len(eds) THEN [fontObfuscation |-> fontObfuscation, err |-> "nil"]
    ELSE IF eds[i].Algorithm \in {"http://www.idpf.org/2008/embedding",
                                  "http://ns.adobe.com/pdf/enc#RC"}
    THEN [fontObfuscation |-> TRUE, err |-> "nil"]
    ELSE [fontObfuscation |-> FALSE, err |-> "ErrDRMProtected"]

RECURSIVE checkEntries(_, _, _)
\* the loop of checkDRM over enc.EncryptedData from position i on
checkEntries(eds, i, fontObfuscation) ==
    IF i > Len(eds) THEN [fontObfuscation |-> fontObfuscation, err |-> "nil"]
    ELSE LET algo == eds[i].Algorithm
         IN  IF algo \in fontObfuscationAlgorithms
             THEN checkEntries(eds, i + 1, TRUE)
             ELSE IF isDRMSignature(algo)
             THEN [fontObfuscation |-> FALSE, err |-> "ErrDRMProtected"]
             ELSE IF isDRMSignature(eds[i].KeyInfo)
             THEN [fontObfuscation |-> FALSE, err |-> "ErrDRMProtected"]
             ELSE [fontObfuscation |-> FALSE, err |-> "ErrDRMProtected"]

checkDRM(zr) ==
    IF findFileInsensitive(zr, sinfFilePath) # 0
    THEN [fontObfuscation |-> FALSE, err |-> "ErrDRMProtected"]
    ELSE With(findFileInsensitive(zr, encryptionFilePath), LAMBDA fi :
         With(IF fi = 0 THEN "nil" ELSE readZipFileErr(zr.File[fi]), LAMBDA readErr :
             IF fi = 0 THEN [fontObfuscation |-> FALSE, err |-> "nil"]
             ELSE IF readErr # "nil"
             THEN [fontObfuscation |-> FALSE, err |-> readErr]
             ELSE IF zr.File[fi].Data.kind # "encryption" \/ ~zr.File[fi].Data.ok
             THEN [fontObfuscation |-> FALSE, err |-> "ErrDRMProtected"]
             ELSE IF Len(zr.File[fi].Data.EncryptedData) = 0
             THEN [fontObfuscation |-> FALSE, err |-> "nil"]
             ELSE checkEntries(zr.File[fi].Data.EncryptedData, 1, FALSE)))

\* ------------------------------------------------------------------------
\* container.go
\* ------------------------------------------------------------------------

containerPath == <<"M","E","T","A","-","I","N","F","/","c","o","n","t","a","i","n","e","r",".","x","m","l">>

\* strings.EqualFold(strings.TrimSpace(mediaType), "application/oebps-package+xml")
\* over the media types the model uses
IsPackageMediaType(mediaType) ==
    mediaType \in {"application/oebps-package+xml", " Application/OEBPS-Package+XML "}

RECURSIVE rootFileLoop_anyMediaType(_, _, _)
\* the loop of parseContainerXML taking the first non-empty full-path
\* whatever its media type
rootFileLoop_anyMediaType(rfs, i, fallbackPath) ==
    IF i > Len(rfs) THEN [path |-> <<>>, err |-> "ErrInvalidEPub"]
    ELSE IF TrimSpace(rfs[i].FullPath) = <<>>
    THEN rootFileLoop_anyMediaType(rfs, i + 1, fallbackPath)
    ELSE [path |-> TrimSpace(rfs[i].FullPath), err |-> "nil"]

RECURSIVE rootFileLoop(_, _, _)
\* the loop of parseContainerXML over c.RootFiles from position i on
rootFileLoop(rfs, i, fallbackPath) ==
    IF i > Len(rfs)
    THEN IF fallbackPath = <<>> THEN [path |-> <<>>, err |-> "ErrInvalidEPub"]
         ELSE [path |-> fallbackPath, err |-> "nil"]
    ELSE LET fullPath == TrimSpace(rfs[i].FullPath)
         IN  IF fullPath = <<>> THEN rootFileLoop(rfs, i + 1, fallbackPath)
             ELSE IF IsPackageMediaType(rfs[i].MediaType)
             THEN [path |-> fullPath, err |-> "nil"]
             ELSE rootFileLoop(rfs, i + 1,
                               IF fallbackPath = <<>> THEN fullPath ELSE fallbackPath)

parseContainerXML(f) ==
    With(readZipFileErr(f), LAMBDA readErr :
    IF readErr # "nil" THEN [path |-> <<>>, err |-> readErr]
    ELSE IF f.Data.kind # "container" \/ ~f.Data.ok
    THEN [path |-> <<>>, err |-> "parse"]
    ELSE IF Len(f.Data.RootFiles) = 0
    THEN [path |-> <<>>, err |-> "ErrInvalidEPub"]
    ELSE rootFileLoop(f.Data.RootFiles, 1, <<>>))

fallbackFindOPF(zr) ==
    LET hits == {i \in 1..Len(zr.File) :
                    HasSuffix(ToLower(zr.File[i].Name), <<".","o","p","f">>)}
    IN  IF hits = {} THEN [path |-> <<>>, err |-> "ErrInvalidEPub"]
        ELSE [path |-> zr.File[CHOOSE i \in hits : \A j \in hits : i <= j].Name,
              err |-> "nil"]

parseContainer(zr) ==
    With(findFileInsensitive(zr, containerPath), LAMBDA fi :
        IF fi # 0 THEN parseContainerXML(zr.File[fi])
        ELSE fallbackFindOPF(zr))


\* ------------------------------------------------------------------------
\* opf.go
\* ------------------------------------------------------------------------

\* parseOPF: [err, pkg]; Version defaults to "2.0"
parseOPF(data) ==
    IF data.kind # "opf" \/ ~data.ok THEN [err |-> "parse", pkg |-> data]
    ELSE [err |-> "nil",
          pkg |-> [data EXCEPT !.Version =
                       IF data.Version = <<>> THEN <<"2", ".", "0">> ELSE @]]

\* the manifestItem built from a raw <item>
MakeManifestItem(item) ==
    [ID |-> item.ID, Href |-> item.Href,
     MediaType |-> item.MediaType, Properties |-> item.Properties]

\* buildManifestMaps, the map keyed by id: each assignment overwrites
manifestByIDOf(items) ==
    [id \in {items[i].ID : i \in 1..Len(items)} |->
        LET hits == {i \in 1..Len(items) : items[i].ID = id}
        IN  MakeManifestItem(items[CHOOSE i \in hits : \A j \in hits : i >= j])]

\* buildManifestMaps, the map keyed by href: each assignment overwrites
manifestByHrefOf(items) ==
    [h \in {items[i].Href : i \in 1..Len(items)} |->
        LET hits == {i \in 1..Len(items) : items[i].Href = h}
        IN  MakeManifestItem(items[CHOOSE i \in hits : \A j \in hits : i >= j])]

RECURSIVE buildSpine_dropUnresolved(_, _)
\* buildSpine skipping the itemrefs whose idref is in no manifest item
buildSpine_dropUnresolved(spine, manifestByID) ==
    IF spine.ItemRefs = <<>> THEN <<>>
    ELSE LET ref == Head(spine.ItemRefs)
             rest == buildSpine_dropUnresolved(
                         [spine EXCEPT !.ItemRefs = Tail(@)], manifestByID)
         IN  IF ref.IDRef \in DOMAIN manifestByID
             THEN <<[IDRef |-> ref.IDRef,
                     Linear |-> ref.Linear # "no",
                     ID |-> manifestByID[ref.IDRef].ID,
                     Href |-> manifestByID[ref.IDRef].Href,
                     MediaType |-> manifestByID[ref.IDRef].MediaType]>> \o rest
             ELSE rest

\* buildSpine: one spineItem per itemref, resolved fields empty on a miss
buildSpine(spine, manifestByID) ==
    [i \in 1..Len(spine.ItemRefs) |->
        LET ref == spine.ItemRefs[i]
            hit == ref.IDRef \in DOMAIN manifestByID
        IN  [IDRef |-> ref.IDRef,
             Linear |-> ref.Linear # "no",
             ID |-> IF hit THEN manifestByID[ref.IDRef].ID ELSE "",
             Href |-> IF hit THEN manifestByID[ref.IDRef].Href ELSE <<>>,
             MediaType |-> IF hit THEN manifestByID[ref.IDRef].MediaType ELSE ""]]

buildGuide(guide) == guide

RECURSIVE extractTitles(_)
\* extractTitles for dc:title elements without an id (no display-seq, so
\* document order is kept): values trimmed, empty ones skipped
extractTitles(titles) ==
    IF titles = <<>> THEN <<>>
    ELSE With(TrimSpace(Head(titles)), LAMBDA v :
             IF v = <<>> THEN extractTitles(Tail(titles))
             ELSE <<v>> \o extractTitles(Tail(titles)))

\* extractMetadata: the version and the titles; the other Dublin Core
\* fields are not modelled
extractMetadata(pkg) ==
    [Version |-> pkg.Version, Titles |-> extractTitles(pkg.Titles)]

\* ------------------------------------------------------------------------
\* epub.go: paths and the ZIP index
\* ------------------------------------------------------------------------

\* Book.resolveOPFPath
resolveOPFPath(opfDir, href) ==
    IF href = <<>> THEN <<>>
    ELSE IF opfDir = <<".">> THEN href
    ELSE PathJoin(opfDir, href)

\* Book.buildZipIndex, exact names: first entry wins
zipExactOf(zr) ==
    [n \in {zr.File[i].Name : i \in 1..Len(zr.File)} |->
        LET hits == {i \in 1..Len(zr.File) : zr.File[i].Name = n}
        IN  CHOOSE i \in hits : \A j \in hits : i <= j]

\* Book.buildZipIndex, lowercased names, with a later entry overwriting
zipLowerOf_lastWins(zr) ==
    [n \in {ToLower(zr.File[i].Name) : i \in 1..Len(zr.File)} |->
        LET hits == {i \in 1..Len(zr.File) : ToLower(zr.File[i].Name) = n}
        IN  CHOOSE i \in hits : \A j \in hits : i >= j]

\* Book.buildZipIndex, lowercased names: first entry wins
zipLowerOf(zr) ==
    [n \in {ToLower(zr.File[i].Name) : i \in 1..Len(zr.File)} |->
        LET hits == {i \in 1..Len(zr.File) : ToLower(zr.File[i].Name) = n}
        IN  CHOOSE i \in hits : \A j \in hits : i <= j]

\* Book.findFile asking the lowercase index first
findFile_lowerFirst(b, name) ==
    IF ToLower(name) \in DOMAIN b.zipLower THEN b.zipLower[ToLower(name)]
    ELSE IF name \in DOMAIN b.zipExact THEN b.zipExact[name]
    ELSE 0

\* Book.findFile: the position in zip.File, 0 for nil
findFile(b, name) ==
    IF name \in DOMAIN b.zipExact THEN b.zipExact[name]
    ELSE IF ToLower(name) \in DOMAIN b.zipLower THEN b.zipLower[ToLower(name)]
    ELSE 0

\* ------------------------------------------------------------------------
\* toc.go
\* ------------------------------------------------------------------------

\* hrefWithoutFragment
hrefWithoutFragment(href) ==
    LET idx == IndexByte(href, "#")
    IN  IF idx > 0 THEN SubSeq(href, 1, idx - 1) ELSE href

\* parseTOC, the spine map: resolved href -> 0-based spine position, a later
\* spine item overwriting an earlier one with the same href
spineMapOf(spine, opfDir) ==
    [h \in {resolveOPFPath(opfDir, spine[i].Href) : i \in 1..Len(spine)} |->
        LET hits == {i \in 1..Len(spine) : resolveOPFPath(opfDir, spine[i].Href) = h}
        IN  (CHOOSE i \in hits : \A j \in hits : i >= j) - 1]

RECURSIVE assignSpineIndices(_, _)
assignSpineIndices(items, spineMap) ==
    [i \in 1..Len(items) |->
        LET filePath == hrefWithoutFragment(items[i].Href)
            hit == items[i].Href # <<>> /\ filePath \in DOMAIN spineMap
        IN  [items[i] EXCEPT
                !.SpineIndex = IF hit THEN spineMap[filePath] ELSE @,
                !.Children = assignSpineIndices(@, spineMap)]]

RECURSIVE flattenTOCItems(_)
\* flattenTOCItems: the entries in preorder
flattenTOCItems(items) ==
    IF items = <<>> THEN <<>>
    ELSE <<items[1]>> \o flattenTOCItems(items[1].Children)
                      \o flattenTOCItems(Tail(items))

\* the end map with an inclusive end for the greatest index
endMapOf_inclusiveLast(indices, spineLen) ==
    [idx \in indices |->
        LET above == {j \in indices : j > idx}
        IN  IF above # {} THEN CHOOSE j \in above : \A k \in above : j <= k
            ELSE spineLen - 1]

\* the end map sending every index to the end of the spine
endMapOf_allToEnd(indices, spineLen) == [idx \in indices |-> spineLen]

\* computeSpineRanges, the end map over the distinct sorted indices: the next
\* greater index, spineLen for the greatest
endMapOf(indices, spineLen) ==
    [idx \in indices |->
        LET above == {j \in indices : j > idx}
        IN  IF above # {} THEN CHOOSE j \in above : \A k \in above : j <= k
            ELSE spineLen]

RECURSIVE applyEndMap(_, _)
\* computeSpineRanges, the final loop, written over the tree
applyEndMap(items, endMap) ==
    [i \in 1..Len(items) |->
        [items[i] EXCEPT
            !.SpineEndIndex = IF items[i].SpineIndex >= 0
                              THEN endMap[items[i].SpineIndex] ELSE -1,
            !.Children = applyEndMap(@, endMap)]]

\* computeSpineRanges ending each entry where the entry after it in the list
\* begins, instead of at the next greater index of the whole tree
computeSpineRanges_byNeighbour(items, spineLen) ==
    LET flat == flattenTOCItems(items)
        indices == {flat[i].SpineIndex : i \in 1..Len(flat)} \ {-1}
        lastPos(idx) == CHOOSE k \in 1..Len(flat) :
                            /\ flat[k].SpineIndex = idx
                            /\ \A j \in 1..Len(flat) : flat[j].SpineIndex = idx => j <= k
        endOf(idx) == IF lastPos(idx) < Len(flat) /\ flat[lastPos(idx) + 1].SpineIndex > idx
                      THEN flat[lastPos(idx) + 1].SpineIndex
                      ELSE spineLen
    IN  IF Len(items) = 0 THEN items
        ELSE IF indices = {} THEN items
        ELSE applyEndMap(items, [idx \in indices |-> endOf(idx)])

computeSpineRanges(items, spineLen) ==
    LET flat == flattenTOCItems(items)
        indices == {flat[i].SpineIndex : i \in 1..Len(flat)} \ {-1}
    IN  IF Len(items) = 0 THEN items
        ELSE IF indices = {} THEN items
        ELSE applyEndMap(items, endMapOf(indices, spineLen))

RECURSIVE convertNavPoints(_, _)
convertNavPoints(points, ncxPath) ==
    [i \in 1..Len(points) |->
        LET src == TrimSpace(points[i].Src)
        IN  [Title |-> points[i].Label,
             Href |-> IF src # <<>> THEN resolveRelativePath(ncxPath, src) ELSE <<>>,
             Children |-> convertNavPoints(points[i].Children, ncxPath),
             SpineIndex |-> -1,
             SpineEndIndex |-> -1]]

\* parseNCX: [err, toc]
parseNCX(data, ncxPath) ==
    IF data.kind # "ncx" \/ ~data.ok THEN [err |-> "parse", toc |-> <<>>]
    ELSE [err |-> "nil", toc |-> convertNavPoints(data.NavPoints, ncxPath)]

RECURSIVE parseNavOL(_, _)
\* parseNavOL with parseNavLI: an <li> is given by the href and text of its
\* first <a> (or the text of its <span>) and by its nested <ol>
parseNavOL(ol, basePath) ==
    [i \in 1..Len(ol) |->
        [Title |-> ol[i].Label,
         Href |-> IF ol[i].Src # <<>> THEN resolveRelativePath(basePath, ol[i].Src)
                  ELSE <<>>,
         Children |-> parseNavOL(ol[i].Children, basePath),
         SpineIndex |-> -1,
         SpineEndIndex |-> -1]]

RECURSIVE navLoop(_, _, _, _, _)
\* the loop of parseNavDocument over the <nav> elements from position i on
navLoop(navs, i, basePath, toc, landmarks) ==
    IF i > Len(navs) THEN [toc |-> toc, landmarks |-> landmarks]
    ELSE IF "toc" \in navs[i].EpubType
    THEN navLoop(navs, i + 1, basePath,
                 IF navs[i].HasOL THEN parseNavOL(navs[i].OL, basePath) ELSE toc,
                 landmarks)
    ELSE IF "landmarks" \in navs[i].EpubType
    THEN navLoop(navs, i + 1, basePath, toc,
                 IF navs[i].HasOL THEN parseNavOL(navs[i].OL, basePath) ELSE landmarks)
    ELSE navLoop(navs, i + 1, basePath, toc, landmarks)

\* parseNavDocument: [err, toc, landmarks].  html.Parse accepts any bytes, so
\* there is no error outcome; bytes that are not a navigation document hold
\* no <nav> element
parseNavDocument(data, basePath) ==
    With(navLoop(IF data.kind = "nav" THEN data.Navs ELSE <<>>,
                 1, basePath, <<>>, <<>>), LAMBDA r :
        [err |-> "nil", toc |-> r.toc, landmarks |-> r.landmarks])


\* parseNavTOC: [ok, toc, landmarks, warnings]
parseNavTOC(b, spineMap) ==
    LET items == b.opf.Manifest
        navs == {i \in 1..Len(items) :
                    \E k \in 1..Len(items[i].Properties) : items[i].Properties[k] = "nav"}
        raw == items[CHOOSE i \in navs : \A j \in navs : i <= j]
        navItem == b.manifestByID[raw.ID]
        fail(w) == [ok |-> FALSE, toc |-> <<>>, landmarks |-> <<>>, warnings |-> w]
    IN  IF navs = {} THEN fail(<<>>)
        ELSE
        With(resolveOPFPath(b.opfDir, navItem.Href), LAMBDA navPath :
        With(findFile(b, navPath), LAMBDA fi :
            IF fi = 0 THEN fail(<<>>)
            ELSE IF readZipFileErr(b.zip.File[fi]) # "nil"
            THEN fail(<<"failed to read nav document">>)
            ELSE
            With(parseNavDocument(b.zip.File[fi].Data, navPath), LAMBDA doc :
                IF doc.err # "nil" THEN fail(<<"failed to parse nav document">>)
                ELSE [ok |-> TRUE,
                      toc |-> assignSpineIndices(doc.toc, spineMap),
                      landmarks |-> assignSpineIndices(doc.landmarks, spineMap),
                      warnings |-> <<>>])))

\* parseNCXTOC: [ok, toc, warnings]
parseNCXTOC(b, spineMap) ==
    LET tocID == b.opf.Spine.Toc
        ncxItem == b.manifestByID[tocID]
        fail(w) == [ok |-> FALSE, toc |-> <<>>, warnings |-> w]
    IN  IF tocID = "" THEN fail(<<>>)
        ELSE IF tocID \notin DOMAIN b.manifestByID THEN fail(<<>>)
        ELSE
        With(resolveOPFPath(b.opfDir, ncxItem.Href), LAMBDA ncxPath :
        With(findFile(b, ncxPath), LAMBDA fi :
            IF fi = 0 THEN fail(<<>>)
            ELSE IF readZipFileErr(b.zip.File[fi]) # "nil"
            THEN fail(<<"failed to read NCX file">>)
            ELSE
            With(parseNCX(b.zip.File[fi].Data, ncxPath), LAMBDA doc :
                IF doc.err # "nil" THEN fail(<<"failed to parse NCX file">>)
                ELSE [ok |-> TRUE, toc |-> assignSpineIndices(doc.toc, spineMap),
                      warnings |-> <<>>])))

\* parseTOC trying the nav document whatever the package version
isEPub3_anyVersion(version) == TRUE

\* parseTOC: isEPub3 := strings.HasPrefix(b.opf.Version, "3")
isEPub3(version) == HasPrefix(version, <<"3">>)

\* Book.parseTOC: the Book with toc, landmarks (and warnings) set; tocNil
\* tells a nil toc slice from an empty one
parseTOC(b) ==
    LET spineLen == Len(b.spine)
    IN  With(spineMapOf(b.spine, b.opfDir), LAMBDA spineMap :
        With(IF isEPub3(b.opf.Version) THEN parseNavTOC(b, spineMap)
             ELSE [ok |-> FALSE, toc |-> <<>>, landmarks |-> <<>>,
                   warnings |-> <<>>], LAMBDA nav :
        With([b EXCEPT !.warnings = @ \o nav.warnings], LAMBDA b1 :
            IF nav.ok
            THEN [b1 EXCEPT !.toc = computeSpineRanges(nav.toc, spineLen),
                            !.tocNil = (nav.toc = <<>>),
                            !.landmarks = nav.landmarks]
            ELSE
            With(parseNCXTOC(b1, spineMap), LAMBDA ncx :
                IF ncx.ok
                THEN [b1 EXCEPT !.warnings = @ \o ncx.warnings,
                                !.toc = computeSpineRanges(ncx.toc, spineLen),
                                !.tocNil = (ncx.toc = <<>>)]
                ELSE [b1 EXCEPT !.warnings = @ \o ncx.warnings,
                                !.toc = <<>>,
                                !.tocNil = FALSE,
                                !.landmarks = <<>>]))))

\* ------------------------------------------------------------------------
\* epub.go: the Book
\* ------------------------------------------------------------------------

expectedMimetype == "application/epub+zip"

\* the zero Book
EmptyBook ==
    [zip |-> [File |-> <<>>], zipExact |-> <<>>, zipLower |-> <<>>,
     closer |-> FALSE, opfPath |-> <<>>, opfDir |-> <<>>,
     opf |-> [kind |-> "none"], manifestByID |-> <<>>, manifestByHref |-> <<>>,
     spine |-> <<>>, guide |-> <<>>, metadata |-> [Version |-> <<>>, Titles |-> <<>>],
     toc |-> <<>>, tocNil |-> TRUE, landmarks |-> <<>>,
     chapters |-> <<>>, chaptersNil |-> TRUE,
     warnings |-> <<>>, licenseDetected |-> FALSE]

\* Book.validateMimetype: the warnings it appends
validateMimetype(zr) ==
    IF Len(zr.File) = 0 THEN <<"empty ZIP archive; mimetype entry missing">>
    ELSE IF zr.File[1].Name # <<"m","i","m","e","t","y","p","e">>
    THEN <<"first ZIP entry is not \"mimetype\"">>
    ELSE IF readZipFileErr(zr.File[1]) # "nil" THEN <<"cannot read mimetype entry">>
    ELSE IF zr.File[1].Data.kind # "text" \/ zr.File[1].Data.text # expectedMimetype
    THEN <<"unexpected mimetype">>
    ELSE <<>>

\* initBook: [err, b]; b is the Book when err = "nil"
initBook(zr, closer) ==
    LET fail(e) == [err |-> e, b |-> EmptyBook]
    IN
    With([EmptyBook EXCEPT !.zip = zr, !.closer = closer,
                           !.zipExact = zipExactOf(zr),
                           !.zipLower = zipLowerOf(zr),
                           !.warnings = validateMimetype(zr)], LAMBDA b0 :
    With(parseContainer(zr), LAMBDA cont :
        IF cont.err # "nil" THEN fail(cont.err)
        ELSE
        With([b0 EXCEPT !.opfPath = cont.path,
                        !.opfDir = PathDir(cont.path)], LAMBDA b1 :
        With(checkDRM(zr), LAMBDA drm :
            IF drm.err # "nil" THEN fail(drm.err)
            ELSE
            With(IF drm.fontObfuscation
                 THEN [b1 EXCEPT !.warnings = Append(@, "font obfuscation detected; obfuscated fonts may not render correctly")]
                 ELSE b1, LAMBDA b2 :
            With(findFile(b2, cont.path), LAMBDA fi :
                IF fi = 0 THEN fail("ErrInvalidEPub")
                ELSE
                With(readZipFileErr(zr.File[fi]), LAMBDA readErr :
                    IF readErr # "nil" THEN fail(readErr)
                    ELSE
                    With(parseOPF(zr.File[fi].Data), LAMBDA parsed :
                        IF parsed.err # "nil" THEN fail(parsed.err)
                        ELSE
                        With(manifestByIDOf(parsed.pkg.Manifest), LAMBDA byID :
                            [err |-> "nil",
                             b |-> parseTOC(
                                 [b2 EXCEPT
                                    !.opf = parsed.pkg,
                                    !.manifestByID = byID,
                                    !.manifestByHref = manifestByHrefOf(parsed.pkg.Manifest),
                                    !.spine = buildSpine(parsed.pkg.Spine, byID),
                                    !.guide = buildGuide(parsed.pkg.Guide),
                                    !.metadata = extractMetadata(parsed.pkg)])])))))))))

\* Book.ReadFile: [err, data]; reading needs the underlying reader, which
\* fails once an owned file has been closed (readerOpen = FALSE)
ReadFile(b, name, readerOpen) ==
    With(findFile(b, name), LAMBDA fi :
    With(IF fi = 0 THEN "nil" ELSE readZipFileErr(b.zip.File[fi]), LAMBDA readErr :
        IF fi = 0 THEN [err |-> "ErrFileNotFound", data |-> [kind |-> "none"]]
        ELSE IF readErr # "nil" THEN [err |-> readErr, data |-> [kind |-> "none"]]
        ELSE IF ~readerOpen THEN [err |-> "closed", data |-> [kind |-> "none"]]
        ELSE [err |-> "nil", data |-> b.zip.File[fi].Data]))

\* buildTOCTitleMap: file path -> title of the first entry in preorder
buildTOCTitleMap(items) ==
    LET flat == flattenTOCItems(items)
        withHref == {i \in 1..Len(flat) : flat[i].Href # <<>>}
    IN  [p \in {hrefWithoutFragment(flat[i].Href) : i \in withHref} |->
            LET hits == {i \in withHref : hrefWithoutFragment(flat[i].Href) = p}
            IN  flat[CHOOSE i \in hits : \A j \in hits : i <= j].Title]

\* Book.Chapters, the build branch: one Chapter per spine item
buildChapters(b) ==
    With(buildTOCTitleMap(b.toc), LAMBDA tocTitleMap :
        [i \in 1..Len(b.spine) |->
            With(resolveOPFPath(b.opfDir, b.spine[i].Href), LAMBDA href :
                [ID |-> b.spine[i].ID,
                 Href |-> href,
                 Title |-> IF href \in DOMAIN tocTitleMap THEN tocTitleMap[href] ELSE "",
                 Linear |-> b.spine[i].Linear,
                 IsLicense |-> FALSE])])

\* copyChapters
copyChapters(in) == in

\* Book.Chapters: [b, ret], the Book afterwards and the value returned
Chapters(b) ==
    IF ~b.chaptersNil THEN [b |-> b, ret |-> copyChapters(b.chapters)]
    ELSE With(buildChapters(b), LAMBDA chapters :
             [b |-> [b EXCEPT !.chapters = chapters, !.chaptersNil = FALSE],
              ret |-> copyChapters(chapters)])

gutenbergPatterns ==
    {"project gutenberg license", "gutenberg.org/license",
     "start of the project gutenberg license",
     "end of the project gutenberg license",
     "start of this project gutenberg ebook",
     "end of this project gutenberg ebook"}

gutenbergComboPatterns ==
    {<<"project gutenberg", "terms of use">>, <<"full license", "gutenberg">>}

\* isGutenbergLicense: a chapter's text is given by the set of phrases its
\* lowercased extracted text contains; other bytes contain none
isGutenbergLicense(data) ==
    LET text == IF data.kind = "xhtml" THEN data.Phrases ELSE {}
    IN  \/ \E pat \in gutenbergPatterns : pat \in text
        \/ \E combo \in gutenbergComboPatterns : combo[1] \in text /\ combo[2] \in text

\* Book.detectLicenses, the scan proper (after the licenseDetected guard):
\* [b, read], read being the names passed to readFile, in order
scanLicenses(b, readerOpen) ==
    With(Chapters(b).b, LAMBDA b1 :
        [b |-> [b1 EXCEPT
                   !.chapters = [i \in 1..Len(b1.chapters) |->
                       With(ReadFile(b1, b1.chapters[i].Href, readerOpen), LAMBDA r :
                           IF r.err = "nil"
                           THEN [b1.chapters[i] EXCEPT
                                    !.IsLicense = isGutenbergLicense(r.data)]
                           ELSE b1.chapters[i])],
                   !.licenseDetected = TRUE],
         read |-> [i \in 1..Len(b1.chapters) |-> i]])

\* Book.detectLicenses without the licenseDetected guard
detectLicenses_noGuard(b, readerOpen) == scanLicenses(b, readerOpen)

\* Book.detectLicenses: [b, read]
detectLicenses(b, readerOpen) ==
    IF b.licenseDetected THEN [b |-> b, read |-> <<>>]
    ELSE scanLicenses(b, readerOpen)

RECURSIVE SelectChapters(_, _)
\* the chapters of s whose IsLicense flag is isLicense, in order
SelectChapters(s, isLicense) ==
    IF s = <<>> THEN <<>>
    ELSE IF s[1].IsLicense = isLicense
    THEN <<s[1]>> \o SelectChapters(Tail(s), isLicense)
    ELSE SelectChapters(Tail(s), isLicense)

\* Book.ContentChapters without the IsLicense test
ContentChapters_keepAll(b, readerOpen) ==
    With(detectLicenses(b, readerOpen), LAMBDA d :
        [b |-> d.b, ret |-> d.b.chapters, read |-> d.read])

\* Book.ContentChapters: [b, ret, read]
ContentChapters(b, readerOpen) ==
    With(detectLicenses(b, readerOpen), LAMBDA d :
        [b |-> d.b, ret |-> SelectChapters(d.b.chapters, FALSE), read |-> d.read])

\* Book.Close that also drops the chapter cache
Close_dropChapters(b, closeErr) ==
    IF b.closer
    THEN [b |-> [b EXCEPT !.closer = FALSE, !.chapters = <<>>, !.chaptersNil = TRUE],
          closed |-> TRUE, err |-> closeErr]
    ELSE [b |-> [b EXCEPT !.chapters = <<>>, !.chaptersNil = TRUE],
          closed |-> FALSE, err |-> "nil"]

\* Book.Close without resetting b.closer
Close_keepCloser(b, closeErr) ==
    IF b.closer THEN [b |-> b, closed |-> TRUE, err |-> closeErr]
    ELSE [b |-> b, closed |-> FALSE, err |-> "nil"]

\* Book.Close: [b, closed, err]; closed tells whether the owned closer was
\* closed by this call, closeErr is what the closer's Close returns
Close(b, closeErr) ==
    IF b.closer THEN [b |-> [b EXCEPT !.closer = FALSE], closed |-> TRUE, err |-> closeErr]
    ELSE [b |-> b, closed |-> FALSE, err |-> "nil"]


\* ------------------------------------------------------------------------
\* cover.go.  A strategy returns the set of manifest items it may return:
\* {} for nil, one item where the code is deterministic, several where the
\* result depends on Go's map iteration order
\* ------------------------------------------------------------------------

\* the media types of the model for which
\* strings.HasPrefix(strings.ToLower(strings.TrimSpace(mediaType)), "image/")
ImageMediaTypes == {"image/png", "image/jpeg", "Image/GIF", " image/png "}

isImageMediaType(mediaType) == mediaType \in ImageMediaTypes

\* strings.Contains
ContainsSeq(str, substr) ==
    \E i \in 1..(Len(str) - Len(substr) + 1) :
        SubSeq(str, i, i + Len(substr) - 1) = substr

containsFold(str, substr) == ContainsSeq(ToLower(str), ToLower(substr))

\* strings.EqualFold, for ASCII
EqualFold(a, b) == ToLower(a) = ToLower(b)

CoverWord == <<"c","o","v","e","r">>

\* the manifest ids of the model that contain "cover" in some letter case
CoverIDs == {"x-Cover"}

\* findFirstImageInHTML: the resolved src of the first <img>, <<>> for none;
\* a page is given by the src of its first image (Img)
findFirstImageInHTML(htmlData, basePath) ==
    IF htmlData.kind = "xhtml" /\ "Img" \in DOMAIN htmlData /\ htmlData.Img # <<>>
    THEN resolveRelativePath(basePath, htmlData.Img)
    ELSE <<>>

\* Book.resolveImageManifestItem; the fallback loop ranges over a map, so
\* any of the items it accepts may be the one returned
resolveImageManifestItem(b, absPath) ==
    With(IF b.opfDir # <<".">> /\ HasPrefix(absPath, b.opfDir \o <<"/">>)
         THEN SubSeq(absPath, Len(b.opfDir) + 2, Len(absPath))
         ELSE absPath, LAMBDA rel :
        IF rel \in DOMAIN b.manifestByHref
           /\ isImageMediaType(b.manifestByHref[rel].MediaType)
        THEN {b.manifestByHref[rel]}
        ELSE IF absPath \in DOMAIN b.manifestByHref
                /\ isImageMediaType(b.manifestByHref[absPath].MediaType)
        THEN {b.manifestByHref[absPath]}
        ELSE {b.manifestByHref[h] :
                 h \in {g \in DOMAIN b.manifestByHref :
                          /\ isImageMediaType(b.manifestByHref[g].MediaType)
                          /\ \/ ToLower(g) = ToLower(rel)
                             \/ ToLower(g) = ToLower(absPath)
                             \/ EqualFold(resolveOPFPath(b.opfDir, g), absPath)}})

\* the image a cover page leads to: the page is read, its first image
\* resolved to a manifest item
imageOfPage(b, xhtmlPath, readerOpen) ==
    With(ReadFile(b, xhtmlPath, readerOpen), LAMBDA r :
        IF r.err # "nil" THEN {}
        ELSE With(findFirstImageInHTML(r.data, xhtmlPath), LAMBDA imgPath :
                 IF imgPath = <<>> THEN {}
                 ELSE resolveImageManifestItem(b, imgPath)))

\* Book.coverFromManifestProperties
coverFromManifestProperties(b) ==
    LET items == b.opf.Manifest
        hits == {i \in 1..Len(items) :
                    \E k \in 1..Len(b.manifestByID[items[i].ID].Properties) :
                        b.manifestByID[items[i].ID].Properties[k] = "cover-image"}
    IN  IF hits = {} THEN {}
        ELSE {b.manifestByID[items[CHOOSE i \in hits : \A j \in hits : i <= j].ID]}

RECURSIVE metaCoverLoop(_, _, _)
\* Book.coverFromMetaCover, the loop over the <meta> elements from i on
metaCoverLoop(b, i, readerOpen) ==
    IF i > Len(b.opf.Metas) THEN {}
    ELSE IF ~(EqualFold(b.opf.Metas[i].Name, CoverWord) /\ b.opf.Metas[i].Content # "")
    THEN metaCoverLoop(b, i + 1, readerOpen)
    ELSE IF b.opf.Metas[i].Content \notin DOMAIN b.manifestByID
    THEN metaCoverLoop(b, i + 1, readerOpen)
    ELSE With(b.manifestByID[b.opf.Metas[i].Content], LAMBDA item :
        IF isImageMediaType(item.MediaType) THEN {item}
        ELSE With(imageOfPage(b, resolveOPFPath(b.opfDir, item.Href), readerOpen),
                  LAMBDA imgs :
                 IF imgs # {} THEN imgs ELSE metaCoverLoop(b, i + 1, readerOpen)))

\* Book.coverFromMetaCover
coverFromMetaCover(b, readerOpen) == metaCoverLoop(b, 1, readerOpen)

RECURSIVE guideLoop(_, _, _)
\* Book.coverFromGuide, the loop over the guide references from i on
guideLoop(b, i, readerOpen) ==
    IF i > Len(b.guide) THEN {}
    ELSE IF ~EqualFold(b.guide[i].Type, CoverWord) THEN guideLoop(b, i + 1, readerOpen)
    ELSE With(imageOfPage(b, resolveOPFPath(b.opfDir,
                                            hrefWithoutFragment(b.guide[i].Href)),
                          readerOpen), LAMBDA imgs :
             IF imgs # {} THEN imgs ELSE guideLoop(b, i + 1, readerOpen))

\* Book.coverFromGuide
coverFromGuide(b, readerOpen) == guideLoop(b, 1, readerOpen)

\* Book.coverFromManifestHeuristic
coverFromManifestHeuristic(b) ==
    LET items == b.opf.Manifest
        hits == {i \in 1..Len(items) :
                    /\ isImageMediaType(b.manifestByID[items[i].ID].MediaType)
                    /\ \/ b.manifestByID[items[i].ID].ID \in CoverIDs
                       \/ containsFold(b.manifestByID[items[i].ID].Href, CoverWord)}
    IN  IF hits = {} THEN {}
        ELSE {b.manifestByID[items[CHOOSE i \in hits : \A j \in hits : i <= j].ID]}

\* Book.coverFromFirstSpine
coverFromFirstSpine(b, readerOpen) ==
    IF Len(b.spine) = 0 THEN {}
    ELSE IF b.spine[1].Href = <<>> THEN {}
    ELSE imageOfPage(b, resolveOPFPath(b.opfDir, b.spine[1].Href), readerOpen)

\* Book.loadCoverImage: [err, Path, MediaType, Data]
loadCoverImage(b, item, readerOpen) ==
    With(resolveOPFPath(b.opfDir, item.Href), LAMBDA imgPath :
    With(ReadFile(b, imgPath, readerOpen), LAMBDA r :
        IF r.err # "nil"
        THEN [err |-> r.err, Path |-> <<>>, MediaType |-> "", Data |-> [kind |-> "none"]]
        ELSE [err |-> "nil", Path |-> imgPath, MediaType |-> item.MediaType,
              Data |-> r.data]))

\* the k-th strategy of Book.Cover
coverStrategy(b, k, readerOpen) ==
    CASE k = 1 -> coverFromManifestProperties(b)
      [] k = 2 -> coverFromMetaCover(b, readerOpen)
      [] k = 3 -> coverFromGuide(b, readerOpen)
      [] k = 4 -> coverFromManifestHeuristic(b)
      [] k = 5 -> coverFromFirstSpine(b, readerOpen)

RECURSIVE coverInOrder(_, _, _)
\* Book.Cover, the chain of if-statements over the strategies in the given
\* order: the first one that returns an item decides
coverInOrder(b, order, readerOpen) ==
    IF order = <<>>
    THEN {[err |-> "ErrNoCover", Path |-> <<>>, MediaType |-> "",
           Data |-> [kind |-> "none"]]}
    ELSE With(coverStrategy(b, Head(order), readerOpen), LAMBDA items :
             IF items # {} THEN {loadCoverImage(b, item, readerOpen) : item \in items}
             ELSE coverInOrder(b, Tail(order), readerOpen))

\* Book.Cover asking the meta element before the manifest property
Cover_metaFirst(b, readerOpen) == coverInOrder(b, <<2, 1, 3, 4, 5>>, readerOpen)

\* Book.Cover: the set of results it may return
Cover(b, readerOpen) == coverInOrder(b, <<1, 2, 3, 4, 5>>, readerOpen)

\* ------------------------------------------------------------------------
\* html.go: extractText.  The HTML is a sequence of tags and texts; a tag is
\* [tt, tag, plain] (plain: a self-closing tag without '>' in its
\* attributes), a text is [tt, text].
\* ------------------------------------------------------------------------

blockTags == {"p", "br", "div", "h1", "h2", "h3", "h4", "h5", "h6", "li", "tr",
              "blockquote", "hr"}

skipTags == {"script", "style"}

RECURSIVE normalizeSelfClosingSkipTags(_)
\* every <script .../> and <style .../> the pattern matches becomes a start
\* tag and an end tag
normalizeSelfClosingSkipTags(htmlData) ==
    IF htmlData = <<>> THEN <<>>
    ELSE IF /\ Head(htmlData).tt = "SelfClosingTag"
            /\ Head(htmlData).tag \in skipTags
            /\ Head(htmlData).plain
    THEN <<[tt |-> "StartTag", tag |-> Head(htmlData).tag, plain |-> TRUE],
           [tt |-> "EndTag", tag |-> Head(htmlData).tag, plain |-> TRUE]>>
         \o normalizeSelfClosingSkipTags(Tail(htmlData))
    ELSE <<Head(htmlData)>> \o normalizeSelfClosingSkipTags(Tail(htmlData))

RECURSIVE collapseLoop(_, _, _)
\* collapseWhitespace, the loop: the builder's content after the runes of s
collapseLoop(s, out, inSpace) ==
    IF s = <<>> THEN out
    ELSE IF IsSpace(Head(s)) THEN collapseLoop(Tail(s), out, TRUE)
    ELSE collapseLoop(Tail(s),
                      (IF inSpace /\ out # <<>> THEN Append(out, " ") ELSE out)
                          \o <<Head(s)>>,
                      FALSE)

collapseWhitespace(s) ==
    IF \A i \in 1..Len(s) : IsSpace(s[i]) THEN <<>>
    ELSE (IF IsSpace(s[1]) THEN <<" ">> ELSE <<>>)
         \o collapseLoop(s, <<>>, FALSE)
         \o (IF IsSpace(s[Len(s)]) THEN <<" ">> ELSE <<>>)

\* extractText before the first token: the loop's variables, with the
\* skipDepth and the buffer length after each token so far (depths, lens)
extractTextStart(htmlData) ==
    [tokens |-> normalizeSelfClosingSkipTags(htmlData), pos |-> 1,
     skipDepth |-> 0, buf |-> <<>>, lastWasNewline |-> TRUE,
     done |-> FALSE, out |-> <<>>, depths |-> <<>>, lens |-> <<>>]

\* the separator a block tag writes
blockBreak(l) ==
    IF l.buf # <<>> /\ ~l.lastWasNewline
    THEN [l EXCEPT !.buf = Append(@, "\n"), !.lastWasNewline = TRUE]
    ELSE l

\* the loop body of extractText for one token
extractTextToken(l, tok) ==
    IF tok.tt = "StartTag"
    THEN IF tok.tag \in skipTags THEN [l EXCEPT !.skipDepth = @ + 1]
         ELSE IF l.skipDepth > 0 THEN l
         ELSE IF tok.tag \in blockTags THEN blockBreak(l)
         ELSE l
    ELSE IF tok.tt = "SelfClosingTag"
    THEN IF l.skipDepth > 0 THEN l
         ELSE IF tok.tag \in blockTags THEN blockBreak(l)
         ELSE l
    ELSE IF tok.tt = "EndTag"
    THEN IF tok.tag \in skipTags /\ l.skipDepth > 0
         THEN [l EXCEPT !.skipDepth = @ - 1]
         ELSE l
    ELSE IF l.skipDepth > 0 THEN l
         ELSE IF collapseWhitespace(tok.text) # <<>>
         THEN [l EXCEPT !.buf = @ \o collapseWhitespace(tok.text),
                        !.lastWasNewline = HasSuffix(collapseWhitespace(tok.text), <<"\n">>)]
         ELSE l

\* one iteration of extractText's loop with an end tag of script or style
\* lowering skipDepth whatever its value
extractTextNext_unguardedEnd(l) ==
    IF l.pos > Len(l.tokens) THEN [l EXCEPT !.done = TRUE, !.out = TrimSpace(l.buf)]
    ELSE With(IF l.tokens[l.pos].tt = "EndTag" /\ l.tokens[l.pos].tag \in skipTags
              THEN [l EXCEPT !.skipDepth = @ - 1]
              ELSE extractTextToken(l, l.tokens[l.pos]), LAMBDA n :
             [n EXCEPT !.pos = @ + 1,
                       !.depths = Append(@, n.skipDepth),
                       !.lens = Append(@, Len(n.buf))])

\* one iteration of extractText's loop: the next token, or the end of input
extractTextNext(l) ==
    IF l.pos > Len(l.tokens) THEN [l EXCEPT !.done = TRUE, !.out = TrimSpace(l.buf)]
    ELSE With(extractTextToken(l, l.tokens[l.pos]), LAMBDA n :
             [n EXCEPT !.pos = @ + 1,
                       !.depths = Append(@, n.skipDepth),
                       !.lens = Append(@, Len(n.buf))])

\* ------------------------------------------------------------------------
\* epub.go: the accessors and their copies.  A returned value is a value of
\* the caller; next to it the model keeps which of its slices are still
\* backed by the Book's own arrays, as paths: <<>> is the top-level slice,
\* <<i>> the Children slice of its i-th entry, <<"Titles">> a slice field
\* ------------------------------------------------------------------------

\* the slice fields of Metadata that the model carries
MetadataSlices == {"Titles"}

\* copyMetadata: the value
copyMetadata(in) == [in EXCEPT !.Titles = [i \in 1..Len(in.Titles) |-> in.Titles[i]]]

\* copyMetadata: out := in shares every slice field, then Titles, Authors,
\* Language, Identifiers and Subjects are replaced by fresh slices
copyMetadataShared(in) ==
    {<<f>> : f \in MetadataSlices \ {"Titles", "Authors", "Language",
                                     "Identifiers", "Subjects"}}

RECURSIVE copyTOCItems(_)
\* copyTOCItems: the value
copyTOCItems(in) ==
    [i \in 1..Len(in) |-> [in[i] EXCEPT !.Children = copyTOCItems(@)]]

RECURSIVE SlicePaths(_)
\* the slices of a tree of entries: the top-level one and every Children
SlicePaths(items) ==
    {<<>>} \cup UNION {{<<i>> \o p : p \in SlicePaths(items[i].Children)} :
                          i \in 1..Len(items)}

\* copyTOCItems copying the top-level slice only: every Children slice is
\* the Book's
copyTOCItemsShared_shallow(in) == SlicePaths(in) \ {<<>>}

RECURSIVE copyTOCItemsShared(_)
\* copyTOCItems: out is made fresh, and each out[i].Children is replaced by
\* a copy made the same way
copyTOCItemsShared(in) ==
    UNION {{<<i>> \o p : p \in copyTOCItemsShared(in[i].Children)} :
              i \in 1..Len(in)}

\* copyChapters: append to a nil slice makes a fresh array
copyChaptersShared(in) == {}

\* Book.HasTOC
HasTOC(b) == Len(b.toc) > 0

\* Book.Metadata: [val, shared]
Metadata(b) ==
    [val |-> copyMetadata(b.metadata), shared |-> copyMetadataShared(b.metadata)]

\* Book.Warnings: [val, shared]; append to a nil slice makes a fresh array
Warnings(b) ==
    [val |-> [i \in 1..Len(b.warnings) |-> b.warnings[i]], shared |-> {}]

\* Book.TOC: [val, shared]; copyTOCItems returns nil for nil
TOC(b) ==
    [val |-> [isNil |-> b.tocNil, items |-> copyTOCItems(b.toc)],
     shared |-> copyTOCItemsShared(b.toc)]

\* Book.Landmarks: [val, shared]
Landmarks(b) ==
    [val |-> copyTOCItems(b.landmarks), shared |-> copyTOCItemsShared(b.landmarks)]

\* --- the caller writing into a value it was handed ------------------------

RECURSIVE SliceAt(_, _)
\* the slice of a tree at a path
SliceAt(items, p) ==
    IF p = <<>> THEN items ELSE SliceAt(items[Head(p)].Children, Tail(p))

RECURSIVE SetTitleAt(_, _, _)
\* items with the Title of entry k of the slice at path p overwritten
SetTitleAt(items, p, k) ==
    IF p = <<>> THEN [items EXCEPT ![k].Title = "Mutated"]
    ELSE [items EXCEPT ![Head(p)].Children = SetTitleAt(@, Tail(p), k)]

RECURSIVE AppendAt(_, _, _)
\* items with entry e appended to the slice at path p
AppendAt(items, p, e) ==
    IF p = <<>> THEN Append(items, e)
    ELSE [items EXCEPT ![Head(p)].Children = AppendAt(@, Tail(p), e)]

\* the entry a caller appends
MutatedItem ==
    [Title |-> "Mutated", Href |-> <<>>, Children |-> <<>>,
     SpineIndex |-> -1, SpineEndIndex |-> -1]

\* what a caller can do to a tree of entries it was handed: overwrite the
\* Title of any entry at any depth, or append to any slice.  [op, path, k, val]
TreeMutations(items) ==
    UNION {{[op |-> "set", path |-> p, k |-> k, val |-> SetTitleAt(items, p, k)] :
               k \in 1..Len(SliceAt(items, p))}
           \cup {[op |-> "append", path |-> p, k |-> 0,
                  val |-> AppendAt(items, p, MutatedItem)]} :
           p \in SlicePaths(items)}

\* what a caller can do to a flat slice: overwrite an element by set(e),
\* or append the element new
SliceMutations(seq, set(_), new) ==
    {[op |-> "set", path |-> <<>>, k |-> k, val |-> [seq EXCEPT ![k] = set(@)]] :
        k \in 1..Len(seq)}
    \cup {[op |-> "append", path |-> <<>>, k |-> 0, val |-> Append(seq, new)]}

MutatedString(e) == "Mutated"

MutatedTitle(e) == <<"M">>

MutatedChapter(c) == [c EXCEPT !.Title = "Mutated"]

\* the Chapter a caller appends
NewChapter ==
    [ID |-> "", Href |-> <<>>, Title |-> "Mutated", Linear |-> TRUE,
     IsLicense |-> FALSE]

\* what a caller can do to the value an accessor returned
Mutations(accessor, v) ==
    CASE accessor = "TOC" ->
           {[m EXCEPT !.val = [v EXCEPT !.items = m.val]] : m \in TreeMutations(v.items)}
      [] accessor = "Landmarks" -> TreeMutations(v)
      [] accessor = "Metadata" ->
           {[m EXCEPT !.path = <<"Titles">>, !.val = [v EXCEPT !.Titles = m.val]] :
               m \in SliceMutations(v.Titles, MutatedTitle, <<"M">>)}
           \cup {[op |-> "field", path |-> <<"Version">>, k |-> 0,
                  val |-> [v EXCEPT !.Version = <<"M">>]]}
      [] accessor = "Warnings" -> SliceMutations(v, MutatedString, "Mutated")
      [] accessor \in {"Chapters", "ContentChapters"} ->
           SliceMutations(v, MutatedChapter, NewChapter)
      [] OTHER -> {}

\* the Book after an overwrite through a slice that is backed by its array
WriteThrough(b, accessor, m) ==
    CASE accessor = "TOC" -> [b EXCEPT !.toc = SetTitleAt(@, m.path, m.k)]
      [] accessor = "Landmarks" -> [b EXCEPT !.landmarks = SetTitleAt(@, m.path, m.k)]
      [] accessor = "Metadata" -> [b EXCEPT !.metadata.Titles[m.k] = <<"M">>]
      [] accessor = "Warnings" -> [b EXCEPT !.warnings[m.k] = "Mutated"]
      [] accessor = "Chapters" -> [b EXCEPT !.chapters[m.k] = MutatedChapter(@)]
      [] OTHER -> b


\* ------------------------------------------------------------------------
\* Inputs: archives
\* ------------------------------------------------------------------------

MaxTop == 2

MaxSpine == 3

MaxEnc == 3

MaxCloses == 2

ReadCap == 2

\* the sequences over S of length at most n
SeqsUpTo(S, n) == UNION {[1..k -> S] : k \in 0..n}

\* name under the directory dir (<<>> for the archive root)
Under(dir, name) == IF dir = <<>> THEN name ELSE dir \o <<"/">> \o name

Entry(name, data) == [Name |-> name, Size |-> 1, Data |-> data]

MimetypeEntry == Entry(<<"m","i","m","e","t","y","p","e">>, [kind |-> "text", text |-> expectedMimetype])

PackageName == <<"p",".","o","p","f">>

ContainerEntry(name, rootFiles) ==
    Entry(name, [kind |-> "container", ok |-> TRUE, RootFiles |-> rootFiles])

GoodContainer(dir) ==
    ContainerEntry(containerPath,
                   <<[FullPath |-> Under(dir, PackageName),
                      MediaType |-> "application/oebps-package+xml"]>>)

OpfEntry(dir, version, manifest, tocID, itemRefs) ==
    Entry(Under(dir, PackageName),
          [kind |-> "opf", ok |-> TRUE, Version |-> version,
           Titles |-> <<<<" ","A"," ">>, <<" ">>, <<"B">>>>,
           Metas |-> <<>>,
           Manifest |-> manifest,
           Spine |-> [Toc |-> tocID, ItemRefs |-> itemRefs],
           Guide |-> <<>>])

Item(id, href, props) ==
    [ID |-> id, Href |-> href, MediaType |-> "application/xhtml+xml",
     Properties |-> props]

ItemRef(idref, linear) == [IDRef |-> idref, Linear |-> linear]

Xhtml(dir, name, phrases) ==
    Entry(Under(dir, name), [kind |-> "xhtml", Phrases |-> phrases])

NavPoint(label, src, children) ==
    [Label |-> label, Src |-> src, Children |-> children]

\* --- archives for the chapter life cycle --------------------------------

\* the package at OEBPS-like directory "E" or at the archive root
PackageDirs == {<<"E">>, <<>>}

\* c3 is percent-encoded, c4 climbs out of the archive, c5 is archive-absolute
LifeManifest ==
    <<Item("c1", <<"a">>, <<>>),
      Item("c2", <<"b">>, <<>>),
      Item("c3", <<"%","6","1">>, <<>>),
      Item("c4", <<".",".","/",".",".","/","x">>, <<>>),
      Item("ncx", <<"t">>, <<>>)>>

\* the itemrefs a spine is drawn from; "gone" is in no manifest
LifeRefs ==
    {ItemRef("c1", ""), ItemRef("c2", "no"), ItemRef("c3", "yes"), ItemRef("gone", "")}

LifeNCX(dir) ==
    Entry(Under(dir, <<"t">>),
          [kind |-> "ncx", ok |-> TRUE,
           NavPoints |-> <<NavPoint("One", <<"a">>, <<>>),
                           NavPoint("Two", <<"b","#","s">>, <<>>)>>])

LifeArchive(dir, itemRefs) ==
    [File |-> <<MimetypeEntry,
                GoodContainer(dir),
                OpfEntry(dir, <<"2",".","0">>, LifeManifest, "ncx", itemRefs),
                LifeNCX(dir),
                Xhtml(dir, <<"a">>, {"chapter one"}),
                Xhtml(dir, <<"b">>, {"project gutenberg", "terms of use"})>>]

LifeSpines == SeqsUpTo(LifeRefs, MaxSpine)

\* --- archives for navigation ---------------------------------------------

NavManifest ==
    <<Item("c1", <<"a">>, <<>>),
      Item("c2", <<"b">>, <<>>),
      Item("c3", <<"c">>, <<>>),
      Item("c4", <<"d">>, <<>>),
      Item("c5", <<"e">>, <<>>),
      Item("nav", <<"n">>, <<"nav">>),
      Item("ncx", <<"t">>, <<>>)>>

NavSpines ==
    {<<>>,
     <<ItemRef("c1", ""), ItemRef("c2", ""), ItemRef("c3", ""),
       ItemRef("c4", ""), ItemRef("c5", "")>>,
     <<ItemRef("c4", ""), ItemRef("gone", ""), ItemRef("c1", ""), ItemRef("c4", "")>>}

\* what a navigation entry points at: nothing, spine files (one with a
\* fragment), a file outside the spine
NavSrcs == {<<>>, <<"a">>, <<"d","#","f">>, <<"x">>}

\* a child entry: without a link, into the spine, or outside it
NavLeaves == {NavPoint("T", src, <<>>) : src \in NavSrcs \ {<<"a">>}}

\* a top-level entry always carries a link and has no child or one leaf
NavNodes ==
    {NavPoint("T", src, kids) :
        src \in NavSrcs \ {<<>>},
        kids \in {<<>>} \cup {<<leaf>> : leaf \in NavLeaves}}

NavTrees == SeqsUpTo(NavNodes, MaxTop)

\* two landmarks: one into the spine, one outside it
NavLandmarks ==
    <<NavPoint("Start", <<"d","#","f">>, <<>>), NavPoint("Notes", <<"x">>, <<>>)>>

NavDoc(dir, tree, marks) ==
    Entry(Under(dir, <<"n">>),
          [kind |-> "nav", ok |-> TRUE,
           Navs |-> <<[EpubType |-> {"toc"}, HasOL |-> TRUE, OL |-> tree],
                      [EpubType |-> {"landmarks"}, HasOL |-> TRUE, OL |-> marks]>>])

NavArchive(version, itemRefs, tree, marks) ==
    [File |-> <<MimetypeEntry,
                GoodContainer(<<"E">>),
                OpfEntry(<<"E">>, version, NavManifest, "ncx", itemRefs),
                NavDoc(<<"E">>, tree, marks),
                Entry(<<"E","/","t">>,
                      [kind |-> "ncx", ok |-> TRUE, NavPoints |-> tree])>>]

NavVersions == {<<"2",".","0">>, <<"3",".","0">>}

\* --- archives for the choice of the navigation source ---------------------

SrcVersions == NavVersions \cup {<<"3",".","3">>}

\* the manifest with and without the item that carries the nav property
SrcManifests ==
    {NavManifest, SelectSeq(NavManifest, LAMBDA item : item.Properties = <<>>)}

\* the spine toc attribute: the NCX item, or none
SrcTocIDs == {"ncx", ""}

SrcNavTree == <<NavPoint("N1", <<"a">>, <<>>), NavPoint("N2", <<"d">>, <<>>)>>

SrcNcxTree == <<NavPoint("X1", <<"b">>, <<>>)>>

TocNav(tree) == [EpubType |-> {"toc"}, HasOL |-> TRUE, OL |-> tree]

LandmarksNav == [EpubType |-> {"landmarks"}, HasOL |-> TRUE, OL |-> NavLandmarks]

\* the file at the nav item's path: none, a navigation document with a toc
\* nav, with only a landmarks nav, with a toc nav that has no <ol>, with a toc
\* nav whose <ol> is empty, one declared larger than readZipFile accepts, or
\* a file that is not a navigation document
SrcNavEntries ==
    {<<>>,
     <<NavDoc(<<"E">>, SrcNavTree, NavLandmarks)>>,
     <<[NavDoc(<<"E">>, SrcNavTree, NavLandmarks) EXCEPT !.Size = maxDecompressSize + 1]>>,
     <<Entry(<<"E","/","n">>, [kind |-> "text", text |-> "not a document"])>>}
    \cup {<<Entry(<<"E","/","n">>, [kind |-> "nav", ok |-> TRUE, Navs |-> navs])>> :
             navs \in {<<LandmarksNav>>,
                       <<[EpubType |-> {"toc"}, HasOL |-> FALSE, OL |-> <<>>], LandmarksNav>>,
                       <<TocNav(<<>>)>>}}

\* the file at the NCX item's path: none, one with a navMap, one with an
\* empty navMap, one that does not parse
SrcNcxEntries ==
    {<<>>}
    \cup {<<Entry(<<"E","/","t">>, [kind |-> "ncx", ok |-> ok, NavPoints |-> points])>> :
             ok \in BOOLEAN, points \in {SrcNcxTree, <<>>}}

SrcArchive(version, manifest, tocID, nav, ncx) ==
    [File |-> <<MimetypeEntry,
                GoodContainer(<<"E">>),
                OpfEntry(<<"E">>, version, manifest, tocID,
                         <<ItemRef("c1", ""), ItemRef("c2", ""), ItemRef("c3", ""),
                           ItemRef("c4", ""), ItemRef("c5", "")>>)>>
              \o nav \o ncx]

\* --- archives for the accessors -------------------------------------------

ViewManifest ==
    <<Item("c1", <<"a">>, <<>>),
      Item("c2", <<"b">>, <<>>),
      Item("nav", <<"n">>, <<"nav">>)>>

\* a table of contents three levels deep
ViewTree ==
    <<NavPoint("One", <<"a">>,
               <<NavPoint("Sub", <<"a","#","s">>,
                          <<NavPoint("Deep", <<"b">>, <<>>)>>)>>),
      NavPoint("Two", <<"b">>, <<>>)>>

\* no encryption.xml, or one that only obfuscates a font
ViewEncEntries ==
    {<<>>,
     <<Entry(encryptionFilePath,
             [kind |-> "encryption", ok |-> TRUE,
              EncryptedData |-> <<[Algorithm |-> "http://www.idpf.org/2008/embedding",
                                   KeyInfo |-> ""]>>])>>}

ViewArchive(enc, tree) ==
    [File |-> <<MimetypeEntry, GoodContainer(<<"E">>)>> \o enc \o
              <<OpfEntry(<<"E">>, <<"3",".","0">>, ViewManifest, "",
                         <<ItemRef("c1", ""), ItemRef("c2", "")>>),
                NavDoc(<<"E">>, tree, NavLandmarks),
                Xhtml(<<"E">>, <<"a">>, {"chapter one"}),
                Xhtml(<<"E">>, <<"b">>, {"project gutenberg", "terms of use"})>>]

\* --- archives for cover detection ----------------------------------------

\* a manifest item of a given media type
TypedItem(id, href, mediaType, props) ==
    [ID |-> id, Href |-> href, MediaType |-> mediaType, Properties |-> props]

\* for each strategy: nothing for it to find ("none"), an item it finds whose
\* file is in the archive ("ok"), an item it finds whose file is not
\* ("missing")
CoverChoices == {"none", "ok", "missing"}

\* per strategy, the id and the archive path of the image it is given
StrategyItemID == <<"p", "m", "gi", "h", "si">>

StrategyPath ==
    <<<<"E","/","p">>, <<"E","/","m">>, <<"E","/","i">>,
      <<"E","/","C","o","v","e","r">>, <<"E","/","s">>>>

When(cond, seq) == IF cond THEN seq ELSE <<>>

CoverManifest(c) ==
    <<Item("c1", <<"a">>, <<>>)>>
    \o When(c[5] # "none", <<TypedItem("si", <<"s">>, "image/png", <<>>)>>)
    \o When(c[4] # "none", <<TypedItem("h", <<"C","o","v","e","r">>, "Image/GIF", <<>>)>>)
    \o When(c[3] # "none", <<Item("gp", <<"g">>, <<>>),
                             TypedItem("gi", <<"i">>, " image/png ", <<>>)>>)
    \o When(c[2] # "none", <<TypedItem("m", <<"m">>, "image/jpeg", <<>>)>>)
    \o When(c[1] # "none", <<TypedItem("p", <<"p">>, "image/png", <<"x", "cover-image">>)>>)

Page(name, img) ==
    Entry(<<"E","/">> \o name, [kind |-> "xhtml", Phrases |-> {}, Img |-> img])

Image(k) == Entry(StrategyPath[k], [kind |-> "image", of |-> k])

CoverOpf(c) ==
    [OpfEntry(<<"E">>, <<"2",".","0">>, CoverManifest(c), "", <<ItemRef("c1", "")>>)
        EXCEPT !.Data.Metas =
                   When(c[2] # "none", <<[Name |-> <<"C","o","v","e","r">>, Content |-> "m"]>>),
               !.Data.Guide =
                   When(c[3] # "none",
                        <<[Type |-> <<"t","o","c">>, Title |-> "", Href |-> <<"a">>],
                          [Type |-> <<"C","O","V","E","R">>, Title |-> "",
                           Href |-> <<"g","#","x">>]>>)]

CoverArchive(c) ==
    [File |-> <<MimetypeEntry, GoodContainer(<<"E">>), CoverOpf(c),
                Page(<<"a">>, IF c[5] # "none" THEN <<"s">> ELSE <<>>)>>
              \o When(c[3] # "none", <<Page(<<"g">>, <<"i">>)>>)
              \o When(c[1] = "ok", <<Image(1)>>)
              \o When(c[2] = "ok", <<Image(2)>>)
              \o When(c[3] = "ok", <<Image(3)>>)
              \o When(c[4] = "ok", <<Image(4)>>)
              \o When(c[5] = "ok", <<Image(5)>>)]

\* --- archives whose cover page names its image in another letter case ------

\* three images whose hrefs differ in letter case only
CaseImages ==
    <<TypedItem("x", <<"i","M">>, "image/png", <<>>),
      TypedItem("y", <<"I","m">>, "image/jpeg", <<>>),
      TypedItem("z", <<"i","m">>, "Image/GIF", <<>>)>>

\* what the page's <img src> says
CaseRefs == {<<"i","m">>, <<"I","M">>, <<"i","M">>}

\* the first spine item is a page with an <img>; the manifest holds the
\* images chosen by picked, each with its file
CaseArchive(dir, picked, ref) ==
    [File |-> <<MimetypeEntry,
                GoodContainer(dir),
                OpfEntry(dir, <<"2",".","0">>,
                         <<Item("c1", <<"a">>, <<>>)>>
                             \o When(1 \in picked, <<CaseImages[1]>>)
                             \o When(2 \in picked, <<CaseImages[2]>>)
                             \o When(3 \in picked, <<CaseImages[3]>>),
                         "", <<ItemRef("c1", "")>>),
                Entry(Under(dir, <<"a">>), [kind |-> "xhtml", Phrases |-> {}, Img |-> ref])>>
              \o When(1 \in picked, <<Entry(Under(dir, CaseImages[1].Href), [kind |-> "image", of |-> 1])>>)
              \o When(2 \in picked, <<Entry(Under(dir, CaseImages[2].Href), [kind |-> "image", of |-> 2])>>)
              \o When(3 \in picked, <<Entry(Under(dir, CaseImages[3].Href), [kind |-> "image", of |-> 3])>>)]

\* --- arguments for the path and read functions ----------------------------

MaxHref == 4

MaxBytes == 3

\* the characters hrefs are made of: a name, the dot, the separator, a blank
\* and what spells the percent-encoded separator
HrefChars == {"a", ".", "/", " ", "%", "2", "f"}

Hrefs == SeqsUpTo(HrefChars, MaxHref)

\* a file at the root, in a directory, under an absolute path, above the root
BasePaths ==
    {<<"a">>, <<"d","/","a">>, <<"/","a">>, <<".",".","/","a">>}

\* entry names: safe ones, an absolute one, the parent directory, one below
\* it, one that climbs out after cleaning, one that only begins with dots
EntryNames ==
    {<<"a">>, <<"d","/",".",".","/","a">>, <<"/","a">>, <<".",".">>,
     <<".",".","/","a">>, <<"a","/",".",".","/",".",".","/","b">>, <<".",".","a">>}

\* --- archives and requests for entry lookup --------------------------------

MaxEntries == 3

\* names that differ in letter case only, pairwise
LookupNames == {<<"a">>, <<"A">>, <<"a","B">>, <<"A","b">>}

\* the requested names: the entry names, one that matches two of them only
\* case-insensitively, one that matches none
LookupRequests == LookupNames \cup {<<"a","b">>, <<"b">>}

\* archives of up to MaxEntries entries, names repeated or not
LookupArchives ==
    {[File |-> [i \in 1..Len(names) |-> Entry(names[i], [kind |-> "text", text |-> "x"])]] :
        names \in SeqsUpTo(LookupNames, MaxEntries)}

\* --- archives for locating the package file ---------------------------------

MaxRootFiles == 3

\* a <rootfile>: its full-path empty, blank, plain or padded with a blank,
\* its media type the package type in another letter case and padded, or
\* another type; and one with the package type spelled exactly
RootFileChoices ==
    {[FullPath |-> fullPath, MediaType |-> mediaType] :
        fullPath \in {<<>>, <<" ">>, <<"a">>, <<" ","b">>},
        mediaType \in {" Application/OEBPS-Package+XML ", "text/plain"}}
    \cup {[FullPath |-> <<"c">>, MediaType |-> "application/oebps-package+xml"]}

\* the container file under its usual name or in another letter case
ContainerNames == {containerPath, ToLower(containerPath)}

\* entry names the .opf scan meets
OpfScanNames == {<<"a",".","o","p","f">>, <<"B",".","O","P","F">>, <<"c">>, <<"o","p","f">>}

\* archives with a container file that parses, one that does not, one that
\* cannot be read, and archives without a container file
ContainerArchives ==
    {[File |-> <<MimetypeEntry, ContainerEntry(name, rootFiles)>>] :
        name \in ContainerNames, rootFiles \in SeqsUpTo(RootFileChoices, MaxRootFiles)}
    \cup {[File |-> <<MimetypeEntry, bad,
                      Entry(<<"a",".","o","p","f">>, [kind |-> "text", text |-> "x"])>>] :
             bad \in {[GoodContainer(<<"E">>) EXCEPT !.Data.ok = FALSE],
                      [GoodContainer(<<"E">>) EXCEPT !.Size = maxDecompressSize + 1]}}
    \cup {[File |-> [i \in 1..Len(names) |-> Entry(names[i], [kind |-> "text", text |-> "x"])]] :
             names \in SeqsUpTo(OpfScanNames, MaxEntries)}

\* --- HTML for text extraction ------------------------------------------------

MaxTokens == 4

Tag(tt, tag, plain) == [tt |-> tt, tag |-> tag, plain |-> plain]

\* start tags of script, style and p, end tags of script and p, a script tag
\* closing itself (plainly, and with a '>' in an attribute value), a text
HtmlItems ==
    {Tag("StartTag", "script", TRUE), Tag("StartTag", "style", TRUE),
     Tag("StartTag", "p", TRUE), Tag("EndTag", "script", TRUE),
     Tag("EndTag", "p", TRUE), Tag("SelfClosingTag", "script", TRUE),
     Tag("SelfClosingTag", "script", FALSE),
     [tt |-> "Text", text |-> <<" ","x"," "," ","y"," ">>]}

HtmlInputs == SeqsUpTo(HtmlItems, MaxTokens)

\* --- archives for DRM detection -------------------------------------------

EncData(algo, keyInfo) == [Algorithm |-> algo, KeyInfo |-> keyInfo]

\* the two font-obfuscation algorithms, a signature in the algorithm, a
\* signature in the key info, and a plain cipher with neither
EncChoices ==
    {EncData("http://www.idpf.org/2008/embedding", ""),
     EncData("http://ns.adobe.com/pdf/enc#RC", ""),
     EncData("http://readium.org/2014/01/lcp", ""),
     EncData("http://www.w3.org/2001/04/xmlenc#aes128-cbc",
             "<adept:resource xmlns:adept=\"http://ns.adobe.com/adept\"/>"),
     EncData("http://www.w3.org/2001/04/xmlenc#aes128-cbc", "")}

\* no encryption.xml, an unparseable one, or one with the given entries
EncEntries ==
    {<<>>, <<Entry(encryptionFilePath, [kind |-> "encryption", ok |-> FALSE,
                                        EncryptedData |-> <<>>])>>}
    \cup {<<Entry(encryptionFilePath, [kind |-> "encryption", ok |-> TRUE,
                                       EncryptedData |-> eds])>> :
             eds \in SeqsUpTo(EncChoices, MaxEnc)}

\* no FairPlay marker, or one under either spelling
SinfEntries ==
    {<<>>,
     <<Entry(sinfFilePath, [kind |-> "text", text |-> "<sinf/>"])>>,
     <<Entry(<<"M","e","t","a","-","I","n","f","/","S","I","N","F",".","X","M","L">>, [kind |-> "text", text |-> "<sinf/>"])>>}

\* a good container, none (the .opf scan finds the package), one without
\* rootfiles, one that does not parse
ContainerEntries ==
    {<<GoodContainer(<<"E">>)>>,
     <<>>,
     <<ContainerEntry(containerPath, <<>>)>>,
     <<Entry(containerPath, [kind |-> "container", ok |-> FALSE, RootFiles |-> <<>>])>>}

\* --- archives for the warnings and the failures of open --------------------

\* an entry whose declared size is above what readZipFile accepts
Oversized(e) == [e EXCEPT !.Size = maxDecompressSize + 1]

\* an entry whose content does not parse
Unparseable(e) == [e EXCEPT !.Data.ok = FALSE]

\* the mimetype entry: as it should be, missing (the container comes first),
\* misnamed, with another content, unreadable
MimeEntries ==
    {<<MimetypeEntry>>,
     <<>>,
     <<Entry(<<"M","i","m","e","t","y","p","e">>, [kind |-> "text", text |-> expectedMimetype])>>,
     <<Entry(<<"m","i","m","e","t","y","p","e">>, [kind |-> "text", text |-> "text/plain"])>>,
     <<Oversized(MimetypeEntry)>>}

OpenContainers ==
    {<<GoodContainer(<<"E">>)>>,
     <<Unparseable(GoodContainer(<<"E">>))>>,
     <<Oversized(GoodContainer(<<"E">>))>>}

FontOnlyEncryption ==
    Entry(encryptionFilePath,
          [kind |-> "encryption", ok |-> TRUE,
           EncryptedData |-> <<EncData("http://www.idpf.org/2008/embedding", "")>>])

\* no encryption.xml, font obfuscation only, real DRM, an unreadable one
OpenEncEntries ==
    {<<>>,
     <<FontOnlyEncryption>>,
     <<Entry(encryptionFilePath,
             [kind |-> "encryption", ok |-> TRUE,
              EncryptedData |-> <<EncData("http://readium.org/2014/01/lcp", "")>>])>>,
     <<Oversized(FontOnlyEncryption)>>}

OpenPackage(version) ==
    OpfEntry(<<"E">>, version, NavManifest, "ncx", <<ItemRef("c1", ""), ItemRef("c4", "")>>)

\* the package file of either version, one that does not parse, an
\* unreadable one
OpenPackages ==
    {OpenPackage(<<"2",".","0">>),
     OpenPackage(<<"3",".","0">>),
     Unparseable(OpenPackage(<<"3",".","0">>)),
     Oversized(OpenPackage(<<"3",".","0">>))}

OpenNavEntries ==
    {<<>>,
     <<NavDoc(<<"E">>, SrcNavTree, NavLandmarks)>>,
     <<Oversized(NavDoc(<<"E">>, SrcNavTree, NavLandmarks))>>}

OpenNcxEntries ==
    {<<>>,
     <<LifeNCX(<<"E">>)>>,
     <<Unparseable(LifeNCX(<<"E">>))>>,
     <<Oversized(LifeNCX(<<"E">>))>>}

OpenArchive(mime, cont, enc, opf, nav, ncx) ==
    [File |-> mime \o cont \o enc \o <<opf>> \o nav \o ncx]

\* --- archives with duplicate manifest items --------------------------------

MaxItems == 3

\* manifests of up to MaxItems items over two ids and two hrefs
DupManifests ==
    SeqsUpTo({Item(id, href, <<>>) : id \in {"c1", "c2"}, href \in {<<"a">>, <<"b">>}},
             MaxItems)

DupArchive(manifest) ==
    [File |-> <<MimetypeEntry,
                GoodContainer(<<"E">>),
                OpfEntry(<<"E">>, <<"2",".","0">>, manifest, "",
                         <<ItemRef("c1", ""), ItemRef("c2", "")>>),
                Xhtml(<<"E">>, <<"a">>, {"chapter one"}),
                Xhtml(<<"E">>, <<"b">>, {"chapter two"})>>]

\* --- archives with fragment-only navigation links --------------------------

\* entries F and G link to a fragment of the navigation file itself
FragTree ==
    <<NavPoint("F", <<"#","s">>, <<>>),
      NavPoint("A", <<"a">>, <<NavPoint("G", <<" ","#","t">>, <<>>)>>),
      NavPoint("B", <<"b","#","u">>, <<>>)>>

\* spines with and without an itemref that names no manifest item
FragSpines ==
    {<<ItemRef("c1", ""), ItemRef("c2", "")>>,
     <<ItemRef("c1", ""), ItemRef("gone", ""), ItemRef("c2", "")>>,
     <<ItemRef("gone", ""), ItemRef("c1", "")>>,
     <<>>}

\* the package in directory E or at the archive root, the navigation files
\* next to it
FragArchive(dir, version, itemRefs) ==
    [File |-> <<MimetypeEntry,
                GoodContainer(dir),
                OpfEntry(dir, version, NavManifest, "ncx", itemRefs),
                NavDoc(dir, FragTree, <<>>),
                Entry(Under(dir, <<"t">>),
                      [kind |-> "ncx", ok |-> TRUE, NavPoints |-> FragTree])>>]

DrmArchive(cont, sinf, enc) ==
    [File |-> <<MimetypeEntry>> \o cont \o sinf \o enc \o
              <<OpfEntry(<<"E">>, <<"2",".","0">>, LifeManifest, "ncx",
                         <<ItemRef("c1", "")>>),
                LifeNCX(<<"E">>),
                Xhtml(<<"E">>, <<"a">>, {"chapter one"})>>]


\* ------------------------------------------------------------------------
\* The state machine: one archive, one Book
\* ------------------------------------------------------------------------

VARIABLES
    zr,          \* the archive being opened
    st,          \* "Opening", "Ready", "Closed", or "Failed" (open returned an error)
    via,         \* "none", "Open" (the Book owns the file) or "NewReader"
    err,         \* the error open returned, "nil" for none
    book,        \* the Book (EmptyBook while there is none)
    fileCloses,  \* how often the file opened by Open has been closed
    closeCalls,  \* how often Book.Close has been called
    scanReads,   \* per chapter, how often the license scan has read it
    lastOp,      \* the last method called on the Book
    ret,         \* what it returned
    shared,      \* the slices of ret still backed by the Book's own arrays
    args         \* the arguments of a pending call of a package-level function

vars == <<zr, st, via, err, book, fileCloses, closeCalls, scanReads, lastOp, ret, shared, args>>

\* the reader under the archive still serves reads
readerOpen == via = "NewReader" \/ fileCloses = 0

InitWith(archive) ==
    /\ zr = archive
    /\ st = "Opening"
    /\ via = "none"
    /\ err = "nil"
    /\ book = EmptyBook
    /\ fileCloses = 0
    /\ closeCalls = 0
    /\ scanReads = <<>>
    /\ lastOp = "none"
    /\ ret = "none"
    /\ shared = {}
    /\ args = [fn |-> "none"]

\* no Book: a call of resolveRelativePath or readZipFileWithLimit is pending
InitCallOn(archive, a) ==
    /\ zr = archive
    /\ st = "Opening"
    /\ via = "none"
    /\ err = "nil"
    /\ book = EmptyBook
    /\ fileCloses = 0
    /\ closeCalls = 0
    /\ scanReads = <<>>
    /\ lastOp = "none"
    /\ ret = "none"
    /\ shared = {}
    /\ args = a

InitCall(a) == InitCallOn([File |-> <<>>], a)

InitUtil ==
    \/ \E archive \in ContainerArchives :
          InitCallOn(archive, [fn |-> "parseContainer"])
    \/ \E archive \in LookupArchives, name \in LookupRequests,
          fn \in {"findFile", "findFileInsensitive"} :
          InitCallOn(archive, [fn |-> fn, name |-> name])
    \/ \E basePath \in BasePaths, href \in Hrefs :
          InitCall([fn |-> "resolveRelativePath", basePath |-> basePath, href |-> href])
    \/ \E name \in EntryNames, size \in 0..MaxBytes, actual \in 0..MaxBytes,
          limit \in 0..MaxBytes :
          InitCall([fn |-> "readZipFileWithLimit",
                    f |-> [Name |-> name, Size |-> size, Actual |-> actual],
                    limit |-> limit])

InitCover ==
    \E c \in [1..5 -> CoverChoices] : InitWith(CoverArchive(c))

InitCoverCase ==
    \E dir \in PackageDirs, picked \in SUBSET {1, 2, 3}, ref \in CaseRefs :
        InitWith(CaseArchive(dir, picked, ref))

InitView ==
    \E enc \in ViewEncEntries, tree \in {ViewTree, <<>>} :
        InitWith(ViewArchive(enc, tree))

Init ==
    \E dir \in PackageDirs, refs \in LifeSpines : InitWith(LifeArchive(dir, refs))

InitNav ==
    \/ \E version \in NavVersions, refs \in NavSpines, tree \in NavTrees :
          InitWith(NavArchive(version, refs, tree, NavLandmarks))
    \/ \E version \in SrcVersions, manifest \in SrcManifests, tocID \in SrcTocIDs,
          nav \in SrcNavEntries, ncx \in SrcNcxEntries :
          InitWith(SrcArchive(version, manifest, tocID, nav, ncx))

InitDRM ==
    \E cont \in ContainerEntries, sinf \in SinfEntries, enc \in EncEntries :
        InitWith(DrmArchive(cont, sinf, enc))

InitOpen ==
    \/ \E dir \in PackageDirs, version \in NavVersions, itemRefs \in FragSpines :
          InitWith(FragArchive(dir, version, itemRefs))
    \/ \E manifest \in DupManifests : InitWith(DupArchive(manifest))
    \/ \E mime \in MimeEntries, cont \in OpenContainers, enc \in OpenEncEntries,
       opf \in OpenPackages, nav \in OpenNavEntries, ncx \in OpenNcxEntries :
        InitWith(OpenArchive(mime, cont, enc, opf, nav, ncx))

InitText ==
    \E htmlData \in HtmlInputs : InitCall([fn |-> "extractText", htmlData |-> htmlData])

\* the common part of Open and NewReader: initBook and what the caller gets
Returned(r, how) ==
    /\ via' = how
    /\ err' = r.err
    /\ book' = r.b
    /\ st' = IF r.err = "nil" THEN "Ready" ELSE "Failed"
    /\ scanReads' = [i \in 1..Len(r.b.spine) |-> 0]
    /\ lastOp' = how
    /\ ret' = r.err
    /\ shared' = {}
    /\ UNCHANGED <<args, zr, closeCalls>>

\* Open returning the initBook error without closing the file
OpenCloses_never(initErr) == 0

\* Open, how often it closes the file it opened: zrc.Close() on an initBook
\* error
OpenCloses(initErr) == IF initErr # "nil" THEN 1 ELSE 0

\* Open(path): on an initBook error the file is closed before returning
Open ==
    /\ st = "Opening"
    /\ \E r \in {initBook(zr, TRUE)} :
           /\ Returned(r, "Open")
           /\ fileCloses' = fileCloses + OpenCloses(r.err)

\* NewReader(r, size): the caller keeps the reader
NewReader ==
    /\ st = "Opening"
    /\ \E r \in {initBook(zr, FALSE)} : Returned(r, "NewReader")
    /\ UNCHANGED fileCloses

\* b.Chapters()
CallChapters ==
    /\ st \in {"Ready", "Closed"}
    /\ \E r \in {Chapters(book)} :
           /\ book' = r.b
           /\ ret' = r.ret
           /\ shared' = copyChaptersShared(r.b.chapters)
    /\ lastOp' = "Chapters"
    /\ UNCHANGED <<args, zr, st, via, err, fileCloses, closeCalls, scanReads>>

\* b.ContentChapters()
CallContentChapters ==
    /\ st \in {"Ready", "Closed"}
    /\ \E r \in {ContentChapters(book, readerOpen)} :
           /\ book' = r.b
           /\ ret' = r.ret
           /\ scanReads' =
                [i \in 1..Len(scanReads) |->
                    LET n == scanReads[i] + Cardinality({k \in 1..Len(r.read) : r.read[k] = i})
                    IN  IF n > ReadCap THEN ReadCap ELSE n]
    /\ lastOp' = "ContentChapters"
    /\ shared' = {}
    /\ UNCHANGED <<args, zr, st, via, err, fileCloses, closeCalls>>

\* b.Close(); the closer's own Close may report an error
CallClose ==
    /\ st \in {"Ready", "Closed"}
    /\ closeCalls < MaxCloses
    /\ \E closeErr \in {"nil", "close failed"} :
        \E r \in {Close(book, closeErr)} :
            /\ book' = r.b
            /\ ret' = r.err
            /\ fileCloses' = IF r.closed THEN fileCloses + 1 ELSE fileCloses
    /\ st' = "Closed"
    /\ closeCalls' = closeCalls + 1
    /\ lastOp' = "Close"
    /\ shared' = {}
    /\ UNCHANGED <<args, zr, via, err, scanReads>>

\* what an accessor call leaves alone
AccessorFrame == UNCHANGED <<args, zr, st, via, err, book, fileCloses, closeCalls, scanReads>>

\* b.Metadata()
CallMetadata ==
    /\ st \in {"Ready", "Closed"}
    /\ \E r \in {Metadata(book)} : ret' = r.val /\ shared' = r.shared
    /\ lastOp' = "Metadata"
    /\ AccessorFrame

\* b.TOC()
CallTOC ==
    /\ st \in {"Ready", "Closed"}
    /\ \E r \in {TOC(book)} : ret' = r.val /\ shared' = r.shared
    /\ lastOp' = "TOC"
    /\ AccessorFrame

\* b.Landmarks()
CallLandmarks ==
    /\ st \in {"Ready", "Closed"}
    /\ \E r \in {Landmarks(book)} : ret' = r.val /\ shared' = r.shared
    /\ lastOp' = "Landmarks"
    /\ AccessorFrame

\* b.HasTOC()
CallHasTOC ==
    /\ st \in {"Ready", "Closed"}
    /\ ret' = HasTOC(book)
    /\ shared' = {}
    /\ lastOp' = "HasTOC"
    /\ AccessorFrame

\* b.Warnings()
CallWarnings ==
    /\ st \in {"Ready", "Closed"}
    /\ \E r \in {Warnings(book)} : ret' = r.val /\ shared' = r.shared
    /\ lastOp' = "Warnings"
    /\ AccessorFrame

\* b.Cover()
CallCover ==
    /\ st \in {"Ready", "Closed"}
    /\ \E r \in Cover(book, readerOpen) : ret' = r
    /\ lastOp' = "Cover"
    /\ shared' = {}
    /\ AccessorFrame

\* the accessors whose value a caller can write into, and what lastOp says
\* after the caller did
MutateOf ==
    [Metadata |-> "MutateMetadata", TOC |-> "MutateTOC",
     Landmarks |-> "MutateLandmarks", Warnings |-> "MutateWarnings",
     Chapters |-> "MutateChapters", ContentChapters |-> "MutateContentChapters"]

\* the caller writes into the value the last accessor call returned; an
\* overwrite through a slice backed by the Book's array reaches the Book,
\* an append to a full slice allocates a new array
Mutate ==
    /\ st \in {"Ready", "Closed"}
    /\ lastOp \in DOMAIN MutateOf
    /\ \E m \in Mutations(lastOp, ret) :
           /\ ret' = m.val
           /\ book' = IF m.op = "set" /\ m.path \in shared
                       THEN WriteThrough(book, lastOp, m) ELSE book
    /\ lastOp' = MutateOf[lastOp]
    /\ shared' = {}
    /\ UNCHANGED <<args, zr, st, via, err, fileCloses, closeCalls, scanReads>>

NextOpen == Open \/ NewReader

NextView ==
    \/ Open
    \/ NewReader
    \/ CallMetadata
    \/ CallTOC
    \/ CallLandmarks
    \/ CallHasTOC
    \/ CallWarnings
    \/ CallChapters
    \/ CallContentChapters
    \/ CallClose
    \/ Mutate

Next == Open \/ NewReader \/ CallChapters \/ CallContentChapters \/ CallClose

Spec == Init /\ [][Next]_vars

SpecNav == InitNav /\ [][NextOpen]_vars

SpecDRM == InitDRM /\ [][NextOpen]_vars

SpecView == InitView /\ [][NextView]_vars

NextOpenClose == Open \/ NewReader \/ CallClose

SpecOpen == InitOpen /\ [][NextOpenClose]_vars

\* what a call of a package-level function leaves alone
CallFrame ==
    UNCHANGED <<args, zr, st, via, err, book, fileCloses, closeCalls, scanReads, shared>>

\* resolveRelativePath(basePath, href)
CallResolveRelativePath ==
    /\ lastOp = "none"
    /\ args.fn = "resolveRelativePath"
    /\ ret' = resolveRelativePath(args.basePath, args.href)
    /\ lastOp' = "resolveRelativePath"
    /\ CallFrame

\* readZipFileWithLimit(f, limit)
CallReadZipFileWithLimit ==
    /\ lastOp = "none"
    /\ args.fn = "readZipFileWithLimit"
    /\ \E streamFails \in IF args.f.Actual # args.f.Size THEN BOOLEAN ELSE {FALSE} :
           ret' = readZipFileWithLimit(args.f, args.limit, streamFails)
    /\ lastOp' = "readZipFileWithLimit"
    /\ CallFrame

\* the Book as far as initBook has built it when the ZIP index is ready
indexedBook(archive) ==
    [EmptyBook EXCEPT !.zip = archive, !.zipExact = zipExactOf(archive),
                      !.zipLower = zipLowerOf(archive)]

\* b.findFile(name) and b.ReadFile(name) on a Book over the archive
CallFindFile ==
    /\ lastOp = "none"
    /\ args.fn = "findFile"
    /\ \E b \in {indexedBook(zr)} :
           ret' = [entry |-> findFile(b, args.name),
                   err |-> ReadFile(b, args.name, TRUE).err]
    /\ lastOp' = "findFile"
    /\ CallFrame

\* findFileInsensitive(zr, name)
CallFindFileInsensitive ==
    /\ lastOp = "none"
    /\ args.fn = "findFileInsensitive"
    /\ ret' = findFileInsensitive(zr, args.name)
    /\ lastOp' = "findFileInsensitive"
    /\ CallFrame

\* parseContainer(zr)
CallParseContainer ==
    /\ lastOp = "none"
    /\ args.fn = "parseContainer"
    /\ ret' = parseContainer(zr)
    /\ lastOp' = "parseContainer"
    /\ CallFrame

\* extractText(htmlData) up to its loop
CallExtractText ==
    /\ lastOp = "none"
    /\ args.fn = "extractText"
    /\ ret' = extractTextStart(args.htmlData)
    /\ lastOp' = "extractText"
    /\ CallFrame

\* extractText, one iteration of the loop
ExtractTextNext ==
    /\ lastOp = "extractText"
    /\ ~ret.done
    /\ ret' = extractTextNext(ret)
    /\ UNCHANGED lastOp
    /\ CallFrame

NextText == CallExtractText \/ ExtractTextNext

SpecText == InitText /\ [][NextText]_vars

NextUtil ==
    \/ CallParseContainer
    \/ CallResolveRelativePath
    \/ CallReadZipFileWithLimit
    \/ CallFindFile
    \/ CallFindFileInsensitive

SpecUtil == InitUtil /\ [][NextUtil]_vars

NextCover == Open \/ NewReader \/ CallCover

SpecCover == InitCover /\ [][NextCover]_vars

SpecCoverCase == InitCoverCase /\ [][NextCover]_vars


\* ------------------------------------------------------------------------
\* Properties
\* ------------------------------------------------------------------------

\* the Book exists (open succeeded)
BookOpen == st \in {"Ready", "Closed"}

\* the decoded package file of the archive
InputOpf ==
    LET hits == {i \in 1..Len(zr.File) : zr.File[i].Data.kind = "opf"}
    IN  zr.File[CHOOSE i \in hits : TRUE].Data

\* spine-index and spine-end-index are both -1, or span a non-empty range
\* inside a spine of n items
RangeWellFormed(e, n) ==
    /\ (e.SpineIndex = -1) <=> (e.SpineEndIndex = -1)
    /\ e.SpineIndex # -1 =>
          /\ 0 <= e.SpineIndex
          /\ e.SpineIndex < e.SpineEndIndex
          /\ e.SpineEndIndex <= n

\* C1: after a successful open every entry of the table of contents, at any
\* depth, has spine-index = -1 exactly when spine-end-index = -1, and
\* otherwise 0 <= spine-index < spine-end-index <= number of spine items.
C1_TocRangesWellFormed ==
    BookOpen =>
        LET flat == flattenTOCItems(book.toc)
        IN  \A i \in 1..Len(flat) :
                RangeWellFormed(flat[i], Len(InputOpf.Spine.ItemRefs))

\* a table of contents with a matched child entry under a matched parent,
\* and an unmatched entry
C1_Witness ==
    /\ BookOpen
    /\ \E i \in 1..Len(book.toc) :
          /\ book.toc[i].SpineIndex >= 0
          /\ book.toc[i].Children # <<>>
          /\ book.toc[i].Children[1].SpineIndex >= 0
          /\ book.toc[i].Children[1].SpineEndIndex > book.toc[i].Children[1].SpineIndex
    /\ \E i \in 1..Len(book.toc) : book.toc[i].SpineIndex = -1

\* C2: two entries of the flattened table of contents with different
\* spine-indices >= 0 cover disjoint half-open spine ranges.
C2_TocRangesDisjoint ==
    BookOpen =>
        LET flat == flattenTOCItems(book.toc)
        IN  \A i, j \in 1..Len(flat) :
                (/\ flat[i].SpineIndex >= 0
                 /\ flat[j].SpineIndex >= 0
                 /\ flat[i].SpineIndex # flat[j].SpineIndex)
                => ~ \E p \in 0..Len(book.spine) :
                        /\ flat[i].SpineIndex <= p /\ p < flat[i].SpineEndIndex
                        /\ flat[j].SpineIndex <= p /\ p < flat[j].SpineEndIndex

\* five spine items, entries at positions 0 and 3: ranges [0,3) and [3,5)
C2_Witness ==
    /\ BookOpen
    /\ Len(book.spine) = 5
    /\ Len(book.toc) = 2
    /\ book.toc[1].SpineIndex = 0 /\ book.toc[1].SpineEndIndex = 3
    /\ book.toc[2].SpineIndex = 3 /\ book.toc[2].SpineEndIndex = 5

\* C3: every navigation entry of an opened Book, in landmarks as well as in
\* toc, has spine-index >= 0 with a greater spine-end-index, or both -1.
C3_AllNavEntriesRanged ==
    BookOpen =>
        LET flat == flattenTOCItems(book.toc) \o flattenTOCItems(book.landmarks)
        IN  \A i \in 1..Len(flat) :
                \/ flat[i].SpineIndex >= 0 /\ flat[i].SpineEndIndex > flat[i].SpineIndex
                \/ flat[i].SpineIndex = -1 /\ flat[i].SpineEndIndex = -1


\* the archive holds an entry whose name is META-INF/sinf.xml up to letter case
HasSinf ==
    \E i \in 1..Len(zr.File) : ToLower(zr.File[i].Name) = ToLower(sinfFilePath)

\* C4 (as claimed): for every archive with a META-INF/sinf.xml entry (any
\* letter case), open fails with DRMProtected and produces no Book.
C4_SinfAlwaysDRMProtected ==
    (st # "Opening" /\ HasSinf) =>
        /\ st = "Failed"
        /\ book = EmptyBook
        /\ err = "ErrDRMProtected"

\* C4 (amended): for every archive with a META-INF/sinf.xml entry (any letter
\* case), open fails and produces no Book; the error is DRMProtected whenever
\* the container step, which runs first, yields a package path, and is the
\* container step's error otherwise.
C4_SinfRejected ==
    (st # "Opening" /\ HasSinf) =>
        /\ st = "Failed"
        /\ book = EmptyBook
        /\ err = IF parseContainer(zr).err = "nil" THEN "ErrDRMProtected"
                 ELSE parseContainer(zr).err

\* open has rejected, as DRM protected, an archive whose marker entry is
\* spelled in another letter case
C4_Witness ==
    /\ st = "Failed"
    /\ err = "ErrDRMProtected"
    /\ HasSinf
    /\ \A i \in 1..Len(zr.File) : zr.File[i].Name # sinfFilePath

\* the encrypted-data entries of the archive's parseable encryption descriptor
InputEncryptedData ==
    LET hits == {i \in 1..Len(zr.File) : zr.File[i].Data.kind = "encryption"}
    IN  zr.File[CHOOSE i \in hits : TRUE].Data.EncryptedData

\* open ran the DRM check and the check read a parseable encryption descriptor
DrmCheckReadEntries ==
    /\ st # "Opening"
    /\ parseContainer(zr).err = "nil"
    /\ ~HasSinf
    /\ \E i \in 1..Len(zr.File) :
          zr.File[i].Data.kind = "encryption" /\ zr.File[i].Data.ok

FontObfuscationWarned ==
    \E k \in 1..Len(book.warnings) : book.warnings[k] = "font obfuscation detected; obfuscated fonts may not render correctly"

\* C5: over the encrypted-data entries of a parseable descriptor, the DRM
\* check ends in DRMProtected exactly when some entry's algorithm is not a
\* font-obfuscation URI, wherever the entry sits; otherwise it succeeds and
\* reports font obfuscation exactly when there is at least one entry.
C5_DrmIffNonObfuscationEntry ==
    DrmCheckReadEntries =>
        LET eds == InputEncryptedData
            foreign == \E i \in 1..Len(eds) :
                          eds[i].Algorithm \notin
                              {"http://www.idpf.org/2008/embedding",
                               "http://ns.adobe.com/pdf/enc#RC"}
        IN  /\ (err = "ErrDRMProtected") <=> foreign
            /\ ~foreign => /\ err = "nil"
                           /\ FontObfuscationWarned <=> (eds # <<>>)

\* DRM detected from an entry that follows a font-obfuscation entry
C5_Witness ==
    /\ DrmCheckReadEntries
    /\ err = "ErrDRMProtected"
    /\ Len(InputEncryptedData) >= 2
    /\ InputEncryptedData[1].Algorithm = "http://www.idpf.org/2008/embedding"
    /\ InputEncryptedData[Len(InputEncryptedData)].Algorithm
          = "http://www.w3.org/2001/04/xmlenc#aes128-cbc"

\* the ids of the manifest of the archive's package file
InputManifestIDs == {InputOpf.Manifest[i].ID : i \in 1..Len(InputOpf.Manifest)}

\* C6: chapters() returns one chapter per spine itemref, in spine order, with
\* the id and linear flag of that itemref's item; duplicates are kept, and an
\* itemref resolving to no manifest item is kept with empty resolved fields.
C6_ChaptersFollowSpine ==
    lastOp = "Chapters" =>
        LET refs == InputOpf.Spine.ItemRefs
        IN  /\ Len(ret) = Len(refs)
            /\ \A i \in 1..Len(refs) :
                  /\ ret[i].Linear = (refs[i].Linear # "no")
                  /\ IF refs[i].IDRef \in InputManifestIDs
                     THEN ret[i].ID = refs[i].IDRef
                     ELSE ret[i].ID = "" /\ ret[i].Href = <<>>

\* chapters() returned a list for a spine with a repeated itemref and an
\* itemref that resolves to nothing
C6_Witness ==
    /\ lastOp = "Chapters"
    /\ Len(ret) = 3
    /\ ret[1].ID = "c1" /\ ret[3].ID = "c1"
    /\ ret[2].ID = "" /\ ret[2].Href = <<>>

\* C7: every chapter returned by chapters() has href =
\* resolve(package_path, spine[i].href), resolve being the path resolver
\* (trim, reject leading '/', percent-decode, join, canonicalize, reject '..').
C7_ChapterHrefIsResolved ==
    lastOp = "Chapters" =>
        \A i \in 1..Len(ret) :
            ret[i].Href = resolveRelativePath(book.opfPath, book.spine[i].Href)

NotLicense(c) == ~c.IsLicense

\* C8: what contentChapters() returns equals what a following chapters() call
\* returns with the chapters flagged is-license removed, order kept.
C8_ContentChaptersIsFilteredChapters ==
    lastOp = "ContentChapters" =>
        ret = SelectSeq(Chapters(book).ret, NotLicense)

\* contentChapters() returned some chapters and left a license chapter out
C8_Witness ==
    /\ lastOp = "ContentChapters"
    /\ ret # <<>>
    /\ Len(ret) < Len(Chapters(book).ret)

\* the flags of a chapter list
LicenseFlags(chapters) == [i \in 1..Len(chapters) |-> chapters[i].IsLicense]

\* C9: the license scan runs at most once per Book: before the first
\* contentChapters() call chapters() returns is-license = false throughout;
\* the first contentChapters() call reads each chapter once and sets the
\* flags; later chapters() calls return those flags, and later
\* contentChapters() calls read nothing and change no flag.
C9_LicenseScanOnce ==
    /\ [](/\ (lastOp = "Chapters" /\ ~book.licenseDetected) =>
                \A i \in 1..Len(ret) : ~ret[i].IsLicense
          /\ \A i \in 1..Len(scanReads) :
                scanReads[i] = IF book.licenseDetected THEN 1 ELSE 0)
    /\ [][/\ (~book.licenseDetected /\ book'.licenseDetected) =>
                /\ lastOp' = "ContentChapters"
                /\ \A i \in 1..Len(book'.chapters) :
                      book'.chapters[i].IsLicense =
                          LET r == ReadFile(book, book'.chapters[i].Href, readerOpen)
                          IN  r.err = "nil" /\ isGutenbergLicense(r.data)
          /\ book.licenseDetected =>
                /\ book'.licenseDetected
                /\ LicenseFlags(book'.chapters) = LicenseFlags(book.chapters)
                /\ scanReads' = scanReads
                /\ lastOp' = "Chapters" =>
                      LicenseFlags(ret') = LicenseFlags(book.chapters)]_vars

\* after the scan, chapters() returned a list with a license chapter flagged
C9_Witness ==
    /\ lastOp = "Chapters"
    /\ book.licenseDetected
    /\ \E i \in 1..Len(ret) : ret[i].IsLicense
    /\ \E i \in 1..Len(ret) : ~ret[i].IsLicense

\* C10: from the second call on, close succeeds without touching the
\* underlying file: an owned file is closed exactly once, by the first call,
\* and a Book made from a caller's reader closes nothing.
C10_CloseIdempotent ==
    BookOpen =>
        /\ fileCloses <= 1
        /\ via = "NewReader" => fileCloses = 0
        /\ (via = "Open" /\ closeCalls >= 1) => fileCloses = 1
        /\ (via = "Open" /\ closeCalls = 0) => fileCloses = 0
        /\ (lastOp = "Close" /\ closeCalls >= 2) => ret = "nil"

\* close has been called twice in a row on a Book that owns its file
C10_Witness ==
    /\ via = "Open"
    /\ closeCalls >= 2
    /\ lastOp = "Close"
    /\ fileCloses = 1

\* what the accessors over the data cached at open time return
CachedViews(b) ==
    <<Metadata(b).val, TOC(b).val, Landmarks(b).val, HasTOC(b), Warnings(b).val,
      Chapters(b).ret>>

\* C11: a close() step changes nothing of the Book but the owned closer,
\* which it releases, and metadata, toc, landmarks, has-toc, warnings and
\* chapters return after it what they returned before it.
C11_CloseKeepsCachedData ==
    [][lastOp' = "Close" /\ closeCalls' = closeCalls + 1 =>
          /\ book' = [book EXCEPT !.closer = FALSE]
          /\ CachedViews(book') = CachedViews(book)
          /\ UNCHANGED <<args, zr, via, err, scanReads>>]_vars

\* toc() called on a closed Book that owned its file returned the nested
\* table of contents
C11_Witness ==
    /\ st = "Closed"
    /\ via = "Open"
    /\ ~book.closer
    /\ lastOp = "TOC"
    /\ Len(ret.items) = 2
    /\ ret.items[1].Children[1].Children[1].Title = "Deep"

\* what every accessor returns
AllViews(b, open) ==
    <<Metadata(b).val, TOC(b).val, Landmarks(b).val, Warnings(b).val,
      Chapters(b).ret, ContentChapters(b, open).ret>>

\* C12: an accessor called twice in succession returns equal values, and a
\* caller writing into a returned value (a field, an element, a nested child
\* at any depth, an append) changes nothing any accessor returns afterwards.
C12_AccessorsReturnCopies ==
    [][/\ (lastOp \in DOMAIN MutateOf /\ lastOp' = lastOp) => ret' = ret
       /\ (lastOp \in DOMAIN MutateOf /\ lastOp' = MutateOf[lastOp]) =>
             AllViews(book', readerOpen') = AllViews(book, readerOpen)]_vars

\* the caller overwrote the title of the entry three levels down in the
\* value toc() returned, and the Book's own entry kept its title
C12_Witness ==
    /\ lastOp = "MutateTOC"
    /\ Len(book.toc) = 2
    /\ ret.items[1].Children[1].Children[1].Title = "Mutated"
    /\ book.toc[1].Children[1].Children[1].Title = "Deep"

\* --- the navigation source, read off the archive ---------------------------

\* the archive's entries holding a document of the given kind
InputDocs(kind) ==
    {i \in 1..Len(zr.File) : zr.File[i].Data.kind = kind}

\* the package version is a string >= "3"
InputVersion3 ==
    /\ InputOpf.Version # <<>>
    /\ Head(InputOpf.Version) \in {"3", "4", "5", "6", "7", "8", "9"}

\* the manifest has an item with the nav property
InputDeclaresNav ==
    \E i \in 1..Len(InputOpf.Manifest) :
        \E k \in 1..Len(InputOpf.Manifest[i].Properties) :
            InputOpf.Manifest[i].Properties[k] = "nav"

\* the file the nav item names is in the archive and can be read
InputNavReadable ==
    \E i \in 1..Len(zr.File) :
        /\ zr.File[i].Name = <<"E","/","n">>
        /\ zr.File[i].Size <= maxDecompressSize

\* the <ol> of the navigation document's toc nav, <<>> if it has none
InputNavTocOL ==
    LET navs == zr.File[CHOOSE i \in InputDocs("nav") : TRUE].Data.Navs
        tocs == {k \in 1..Len(navs) : "toc" \in navs[k].EpubType /\ navs[k].HasOL}
    IN  IF InputDocs("nav") = {} \/ tocs = {} THEN <<>>
        ELSE navs[CHOOSE k \in tocs : TRUE].OL

\* the navigation document has a nav element of type toc
InputNavHasTocNav ==
    /\ InputDocs("nav") # {}
    /\ LET navs == zr.File[CHOOSE i \in InputDocs("nav") : TRUE].Data.Navs
       IN  \E k \in 1..Len(navs) : "toc" \in navs[k].EpubType

\* the spine names an NCX item whose file is in the archive and parses
InputNcxUsable ==
    /\ InputOpf.Spine.Toc \in InputManifestIDs
    /\ InputDocs("ncx") # {}
    /\ zr.File[CHOOSE i \in InputDocs("ncx") : TRUE].Data.ok

\* the navPoints of the archive's NCX
InputNcxPoints == zr.File[CHOOSE i \in InputDocs("ncx") : TRUE].Data.NavPoints

\* the labels of a list of source entries, the titles of a list of entries
LabelsOf(points) == [i \in 1..Len(points) |-> points[i].Label]

TitlesOf(items) == [i \in 1..Len(items) |-> items[i].Title]

\* the navigation document is there to be used: the package is version 3 or
\* later, the manifest names it, and its file can be read
NavDocAvailable == InputVersion3 /\ InputDeclaresNav /\ InputNavReadable

C14_TocNeverNil ==
    BookOpen =>
        /\ ~TOC(book).val.isNil
        /\ TOC(book).val.items = <<>> => ~HasTOC(book)

\* C15: for a version >= 3 package whose nav document is found and readable
\* but has no nav element of type toc, the table of contents is the NCX's
\* when the NCX is available.
C15_NavWithoutTocFallsBackToNCX ==
    (BookOpen /\ NavDocAvailable /\ InputDocs("nav") # {} /\ ~InputNavHasTocNav
        /\ InputNcxUsable) =>
        TitlesOf(book.toc) = LabelsOf(InputNcxPoints)

\* --- the cover, read off the archive -----------------------------------------

\* strategy k has something to find: its item is in the manifest
InputMatches(k) == StrategyItemID[k] \in InputManifestIDs

\* the file of the item strategy k finds is in the archive
InputImageThere(k) == \E i \in 1..Len(zr.File) : zr.File[i].Name = StrategyPath[k]

\* the lowest number in a non-empty set of strategies
Lowest(S) == CHOOSE k \in S : \A j \in S : k <= j

\* C16: the image cover() returns is the one of the lowest-numbered strategy
\* that matches, never that of a later one.
C16_CoverStrategyOrder ==
    (lastOp = "Cover" /\ ret.err = "nil") =>
        /\ \E k \in 1..5 : InputMatches(k)
        /\ ret.Path = StrategyPath[Lowest({k \in 1..5 : InputMatches(k)})]

\* cover() returned the cover-image property item of a package that also
\* has a meta cover item, a guide cover page, an item named cover and an
\* image on the first spine page
C16_Witness ==
    /\ lastOp = "Cover"
    /\ ret.err = "nil"
    /\ ret.Path = StrategyPath[1]
    /\ \A k \in 2..5 : InputMatches(k) /\ InputImageThere(k)

\* C17: a strategy whose item cannot be read counts as failed: cover()
\* returns the image of the lowest-numbered strategy whose item is readable,
\* and fails, with NoCover, exactly when there is none.
C17_UnreadableFallsThrough ==
    lastOp = "Cover" =>
        LET good == {k \in 1..5 : InputMatches(k) /\ InputImageThere(k)}
        IN  IF good = {} THEN ret.err = "ErrNoCover"
            ELSE ret.err = "nil" /\ ret.Path = StrategyPath[Lowest(good)]

\* C18 (as claimed): a non-empty path returned by the resolver does not start
\* with "/" and does not start with "..".
C18_ResolvedNoLeadingDots ==
    (lastOp = "resolveRelativePath" /\ ret # <<>>) =>
        /\ ~HasPrefix(ret, <<"/">>)
        /\ ~HasPrefix(ret, <<".", ".">>)

\* C18 (amended): a non-empty path returned by the resolver does not start
\* with "/", is not "..", and does not start with "../"; a name that merely
\* begins with two dots is returned.
C18_ResolvedWithinRoot ==
    (lastOp = "resolveRelativePath" /\ ret # <<>>) =>
        /\ ~HasPrefix(ret, <<"/">>)
        /\ ret # <<".", ".">>
        /\ ~HasPrefix(ret, <<".", ".", "/">>)

\* an href that climbs one directory up from d/a and stays inside the root
C18_Witness ==
    /\ lastOp = "resolveRelativePath"
    /\ args.basePath = <<"d","/","a">>
    /\ args.href = <<".",".","/","a">>
    /\ ret = <<"a">>

\* the cleaned entry name begins with "/", is "..", or starts with "../"
NameUnsafe(name) ==
    \/ HasPrefix(PathClean(name), <<"/">>)
    \/ PathClean(name) = <<".", ".">>
    \/ HasPrefix(PathClean(name), <<".", ".", "/">>)

\* C19: a read with limit L never returns more than L bytes: it is rejected
\* when the declared size exceeds L, takes at most L+1 bytes from the stream,
\* is rejected when the stream yields L+1 bytes whatever was declared, and an
\* entry of exactly L bytes is returned in full.
C19_ReadNeverExceedsLimit ==
    lastOp = "readZipFileWithLimit" =>
        /\ ret.err = "nil" => ret.len <= args.limit /\ ret.len = args.f.Actual
        /\ args.f.Size > args.limit => ret.err # "nil" /\ ret.taken = 0
        /\ ret.taken <= args.limit + 1
        /\ args.f.Actual >= args.limit + 1 => ret.err # "nil"
        /\ (~NameUnsafe(args.f.Name) /\ args.f.Size = args.limit
               /\ args.f.Actual = args.limit) =>
              ret.err = "nil" /\ ret.len = args.limit

\* an entry declared within the limit that decompresses to more was rejected
\* after limit+1 bytes
C19_Witness ==
    /\ lastOp = "readZipFileWithLimit"
    /\ args.f.Size <= args.limit
    /\ args.f.Actual > args.limit
    /\ ret.err = "exceeds"
    /\ ret.taken = args.limit + 1

\* C20: a read of an entry with an unsafe name is rejected before anything is
\* read from the stream, with an error that errors.Is identifies as
\* UnsafePath; a size rejection is identified as EntryTooLarge.
C20_UnsafePathByIdentity ==
    lastOp = "readZipFileWithLimit" =>
        /\ NameUnsafe(args.f.Name) =>
              /\ ret.err # "nil"
              /\ ret.taken = 0
              /\ "ErrUnsafePath" \in ret.is
        /\ ret.err \in {"toolarge", "exceeds"} => "ErrEntryTooLarge" \in ret.is

\* the positions of the archive's entries named exactly name, and of those
\* named name up to letter case
ExactHits(name) == {i \in 1..Len(zr.File) : zr.File[i].Name = name}

FoldHits(name) == {i \in 1..Len(zr.File) : ToLower(zr.File[i].Name) = ToLower(name)}

\* C21: the lookup returns the first entry with exactly the requested name,
\* else the first entry whose lowercased name equals the lowercased request,
\* and fails with EntryNotFound, as read-file does, when there is neither.
C21_EntryLookup ==
    lastOp = "findFile" =>
        /\ ret.entry = IF ExactHits(args.name) # {} THEN Lowest(ExactHits(args.name))
                       ELSE IF FoldHits(args.name) # {} THEN Lowest(FoldHits(args.name))
                       ELSE 0
        /\ (ret.entry = 0) <=> (ret.err = "ErrFileNotFound")

\* a request that matches the second and third entry only up to letter case
\* got the second, although the third comes first in lowercase order
C21_Witness ==
    /\ lastOp = "findFile"
    /\ args.name = <<"a","b">>
    /\ Len(zr.File) = 3
    /\ zr.File[1].Name = <<"A">>
    /\ zr.File[2].Name = <<"a","B">>
    /\ zr.File[3].Name = <<"A","b">>
    /\ ret.entry = 2
    /\ ret.err = "nil"

\* C30: the linear scan of findFileInsensitive returns the entry, or the
\* absence, that the indexed Book.findFile returns for the same archive and
\* name.
C30_LookupsAgree ==
    lastOp = "findFileInsensitive" =>
        ret = findFile(indexedBook(zr), args.name)

\* the scan found, by case-insensitive match, the first of two entries with
\* the same name
C30_Witness ==
    /\ lastOp = "findFileInsensitive"
    /\ args.name = <<"a","b">>
    /\ Len(zr.File) = 3
    /\ zr.File[2].Name = <<"A","b">>
    /\ zr.File[3].Name = <<"A","b">>
    /\ ret = 2

\* the archive has an entry of that name which readZipFile refuses, or one
\* that reads but does not parse
InputUnreadable(name) ==
    \E i \in 1..Len(zr.File) :
        zr.File[i].Name = name /\ zr.File[i].Size > maxDecompressSize

InputUnparseable(name) ==
    \E i \in 1..Len(zr.File) :
        /\ zr.File[i].Name = name
        /\ zr.File[i].Size <= maxDecompressSize
        /\ ~zr.File[i].Data.ok

InputFileFails(name) == InputUnreadable(name) \/ InputUnparseable(name)

\* the first entry is not a readable mimetype entry with the expected content
InputMimetypeBad ==
    \/ zr.File[1].Name # <<"m","i","m","e","t","y","p","e">>
    \/ zr.File[1].Size > maxDecompressSize
    \/ zr.File[1].Data.text # expectedMimetype

\* the encryption descriptor is read and lists encrypted data
InputHasEncryptedData ==
    \E i \in 1..Len(zr.File) :
        /\ zr.File[i].Name = encryptionFilePath
        /\ zr.File[i].Size <= maxDecompressSize
        /\ zr.File[i].Data.ok
        /\ Len(zr.File[i].Data.EncryptedData) > 0

Warned(messages) ==
    \E k \in 1..Len(book.warnings) : book.warnings[k] \in messages

\* the Book carries a warning for every non-fatal condition open met
C22_WarningsAdded ==
    BookOpen =>
        /\ InputMimetypeBad =>
               Warned({"first ZIP entry is not \"mimetype\"", "cannot read mimetype entry",
                       "unexpected mimetype"})
        /\ InputHasEncryptedData => FontObfuscationWarned
        /\ (InputVersion3 /\ InputUnreadable(<<"E","/","n">>)) =>
               Warned({"failed to read nav document"})
        /\ (~NavDocAvailable /\ InputUnreadable(<<"E","/","t">>)) =>
               Warned({"failed to read NCX file"})
        /\ (~NavDocAvailable /\ InputUnparseable(<<"E","/","t">>)) =>
               Warned({"failed to parse NCX file"})

\* open failed for one of the reasons that may make it fail
C22_FailsOnlyWhenFatal ==
    st = "Failed" =>
        \/ err \in {"ErrDRMProtected", "ErrInvalidEPub"}
        \/ InputFileFails(containerPath)
        \/ InputFileFails(<<"E","/","p",".","o","p","f">>)

\* C22: a missing, misnamed or wrong mimetype entry, a navigation file that
\* fails to read or parse, and font obfuscation do not make open fail, and
\* each of them met adds a warning; open fails only with DRMProtected, with
\* InvalidEPub, or on a read or parse failure of the container or the package
\* file.
C22_NonFatalConditionsWarn ==
    st # "Opening" => (C22_WarningsAdded /\ C22_FailsOnlyWhenFatal)

\* a Book opened with a bad mimetype entry, font obfuscation and an NCX that
\* does not parse carries the three warnings
C22_Witness ==
    /\ st = "Ready"
    /\ InputMimetypeBad
    /\ InputHasEncryptedData
    /\ InputUnparseable(<<"E","/","t">>)
    /\ Len(book.warnings) = 3

\* the container file of the archive (0 if there is none) and its rootfiles
ContainerNamed ==
    {i \in 1..Len(zr.File) : ToLower(zr.File[i].Name) = ToLower(containerPath)}

InputContainer == IF ContainerNamed = {} THEN 0 ELSE Lowest(ContainerNamed)

InputContainerParsed ==
    /\ InputContainer # 0
    /\ zr.File[InputContainer].Size <= maxDecompressSize
    /\ zr.File[InputContainer].Data.ok

InputRootFiles == zr.File[InputContainer].Data.RootFiles

\* the rootfiles with a non-empty full-path as written, and after trimming
RawPathRootFiles == {i \in 1..Len(InputRootFiles) : InputRootFiles[i].FullPath # <<>>}

PathRootFiles ==
    {i \in 1..Len(InputRootFiles) : TrimSpace(InputRootFiles[i].FullPath) # <<>>}

PackageTyped(S) == {i \in S : IsPackageMediaType(InputRootFiles[i].MediaType)}

OpfNamed == {i \in 1..Len(zr.File) : HasSuffix(ToLower(zr.File[i].Name), <<".","o","p","f">>)}

\* what the .opf scan of an archive without container file returns
ScanFindsFirstOpf ==
    IF OpfNamed # {} THEN ret = [path |-> zr.File[Lowest(OpfNamed)].Name, err |-> "nil"]
    ELSE ret.err = "ErrInvalidEPub"

FirstWithID(id) ==
    InputOpf.Manifest[Lowest({i \in 1..Len(InputOpf.Manifest) : InputOpf.Manifest[i].ID = id})]

FirstWithHref(href) ==
    InputOpf.Manifest[Lowest({i \in 1..Len(InputOpf.Manifest) : InputOpf.Manifest[i].Href = href})]

InputHasDuplicates ==
    \E i, j \in 1..Len(InputOpf.Manifest) :
        /\ i < j
        /\ \/ InputOpf.Manifest[i].ID = InputOpf.Manifest[j].ID
           \/ InputOpf.Manifest[i].Href = InputOpf.Manifest[j].Href

\* C24: when several manifest items share an id, or share an href, the by-id
\* and the by-href map hold the first of them in document order, and a spine
\* itemref resolves to the first item with its id.
C24_FirstDuplicateWins ==
    BookOpen =>
        /\ \A id \in DOMAIN book.manifestByID :
               book.manifestByID[id] = MakeManifestItem(FirstWithID(id))
        /\ \A href \in DOMAIN book.manifestByHref :
               book.manifestByHref[href] = MakeManifestItem(FirstWithHref(href))
        /\ \A k \in 1..Len(book.spine) :
               book.spine[k].IDRef \in InputManifestIDs =>
                   book.spine[k].Href = FirstWithID(book.spine[k].IDRef).Href

\* without duplicates the maps hold each item under its id and its href
C24_MapsOfDistinctItems ==
    (BookOpen /\ ~InputHasDuplicates) => C24_FirstDuplicateWins

\* the entries of the table of contents made from fragment-only links
FragmentOnlyEntries ==
    {k \in 1..Len(flattenTOCItems(book.toc)) :
        flattenTOCItems(book.toc)[k].Title \in {"F", "G"}}

InputHasFragmentOnlyLinks ==
    \E i \in 1..Len(zr.File) :
        zr.File[i].Data.kind = "ncx" /\ zr.File[i].Data.NavPoints = FragTree

\* every spine itemref names a manifest item
InputSpineResolves ==
    \A i \in 1..Len(InputOpf.Spine.ItemRefs) :
        InputOpf.Spine.ItemRefs[i].IDRef \in InputManifestIDs

\* C25: a navigation entry whose link is a fragment only ends with
\* spine-index -1 and spine-end-index -1, whatever the spine holds (itemrefs
\* naming no manifest item included) and wherever the navigation file is.
C25_FragmentOnlyUnmatched ==
    (BookOpen /\ InputHasFragmentOnlyLinks) =>
        \A k \in FragmentOnlyEntries :
            /\ flattenTOCItems(book.toc)[k].SpineIndex = -1
            /\ flattenTOCItems(book.toc)[k].SpineEndIndex = -1

\* with the navigation file in a directory, or with every itemref resolved,
\* the fragment-only entries stay unmatched
C25_UnmatchedUnlessEmptyHref ==
    (BookOpen /\ InputHasFragmentOnlyLinks
        /\ (InputSpineResolves \/ book.opfDir # <<".">>)) =>
        /\ Cardinality(FragmentOnlyEntries) = 2
        /\ \A k \in FragmentOnlyEntries :
               /\ flattenTOCItems(book.toc)[k].SpineIndex = -1
               /\ flattenTOCItems(book.toc)[k].SpineEndIndex = -1

RECURSIVE ResetIndices(_)
\* the entries as the navigation parser leaves them: no spine position yet
ResetIndices(items) ==
    [i \in 1..Len(items) |->
        [items[i] EXCEPT !.SpineIndex = -1, !.SpineEndIndex = -1,
                         !.Children = ResetIndices(@)]]

\* parseTOC's two steps over a parsed tree, for the Book's spine
RangesOver(items) ==
    computeSpineRanges(assignSpineIndices(ResetIndices(items),
                                          spineMapOf(book.spine, book.opfDir)),
                       Len(book.spine))

\* the file paths of the Book's spine items
SpinePaths == {resolveOPFPath(book.opfDir, book.spine[i].Href) : i \in 1..Len(book.spine)}

\* the entry links to no spine item
Unmatched(e) == e.Href = <<>> \/ hrefWithoutFragment(e.Href) \notin SpinePaths

RemoveAt(seq, i) == SubSeq(seq, 1, i - 1) \o SubSeq(seq, i + 1, Len(seq))

RECURSIVE Removals(_)
\* the trees that lack one unmatched entry (with its subtree, when that holds
\* unmatched entries only)
Removals(items) ==
    {RemoveAt(items, i) :
        i \in {k \in 1..Len(items) :
                  \A n \in 1..Len(flattenTOCItems(<<items[k]>>)) :
                      Unmatched(flattenTOCItems(<<items[k]>>)[n])}}
    \cup UNION {{[items EXCEPT ![i].Children = kids] : kids \in Removals(items[i].Children)} :
                 i \in 1..Len(items)}

\* the matched entries in document order with their ranges
MatchedRanges(items) ==
    LET flat == SelectSeq(flattenTOCItems(items), LAMBDA e : ~Unmatched(e))
    IN  [k \in 1..Len(flat) |->
            [Title |-> flat[k].Title, Href |-> flat[k].Href,
             SpineIndex |-> flat[k].SpineIndex, SpineEndIndex |-> flat[k].SpineEndIndex]]

\* C26: an entry whose link (fragment removed) names no spine item has
\* spine-index -1, and taking such an entry out of the tree leaves the
\* spine-index and spine-end-index of every matched entry as they are.
C26_UnmatchedLeavesRangesAlone ==
    BookOpen =>
        /\ \A n \in 1..Len(flattenTOCItems(book.toc)) :
               Unmatched(flattenTOCItems(book.toc)[n]) =>
                   flattenTOCItems(book.toc)[n].SpineIndex = -1
        /\ RangesOver(book.toc) = book.toc
        /\ \A without \in Removals(book.toc) :
               MatchedRanges(RangesOver(without)) = MatchedRanges(book.toc)

\* an unmatched entry sits between the entries for spine items 0 and 3, and
\* the first of them ends at 3
C26_Witness ==
    /\ st = "Ready"
    /\ Len(book.toc) = 2
    /\ book.toc[1].SpineIndex = 0
    /\ book.toc[1].SpineEndIndex = 3
    /\ Len(book.toc[1].Children) = 1
    /\ Unmatched(book.toc[1].Children[1])
    /\ book.toc[1].Children[1].Href # <<>>
    /\ book.toc[2].SpineIndex = 3
    /\ Removals(book.toc) # {}

\* skipDepth and the buffer length before the k-th token
DepthBefore(k) == IF k = 1 THEN 0 ELSE ret.depths[k - 1]

LenBefore(k) == IF k = 1 THEN 0 ELSE ret.lens[k - 1]

IsSkipTag(tok, tt) == tok.tt = tt /\ tok.tag \in {"script", "style"}

\* C27: in text extraction skipDepth is never negative, rises only on a start
\* tag of script or style, falls only on an end tag of script or style, is
\* the same after a self-closing script or style tag as before it, and while
\* it is above 0 nothing (no text, no newline) is appended to the output.
C27_SkipDepthDiscipline ==
    lastOp = "extractText" =>
        \A k \in 1..Len(ret.depths) :
            /\ ret.depths[k] >= 0
            /\ ret.depths[k] > DepthBefore(k) => IsSkipTag(ret.tokens[k], "StartTag")
            /\ ret.depths[k] < DepthBefore(k) => IsSkipTag(ret.tokens[k], "EndTag")
            /\ ret.tokens[k].tt = "SelfClosingTag" => ret.depths[k] = DepthBefore(k)
            /\ (k > 1 /\ IsSkipTag(ret.tokens[k], "EndTag")
                      /\ IsSkipTag(ret.tokens[k - 1], "StartTag")) =>
                   ret.depths[k] = DepthBefore(k - 1)
            /\ DepthBefore(k) > 0 => ret.lens[k] = LenBefore(k)

\* a script with text inside, then text: skipDepth goes 1, 1, 0, 0 and the
\* output holds the text after the script only
C27_Witness ==
    /\ lastOp = "extractText"
    /\ ret.done
    /\ Len(args.htmlData) = 4
    /\ args.htmlData[1] = Tag("StartTag", "script", TRUE)
    /\ args.htmlData[2].tt = "Text"
    /\ args.htmlData[3] = Tag("EndTag", "script", TRUE)
    /\ args.htmlData[4].tt = "Text"
    /\ ret.depths = <<1, 1, 0, 0>>
    /\ ret.out = <<"x"," ","y">>

\* C28: when Open fails after the file was opened (in the container step,
\* the DRM check, or reading or parsing the package file) the file has been
\* closed exactly once and there is no Book; when it succeeds the file stays
\* open until the first Close, which closes it once.
C28_OpenNeverLeaks ==
    via = "Open" =>
        /\ st = "Failed" => (fileCloses = 1 /\ book = EmptyBook /\ err # "nil")
        /\ st = "Ready" => (fileCloses = 0 /\ closeCalls = 0 /\ book.closer)
        /\ st = "Closed" => (fileCloses = 1 /\ closeCalls >= 1)

\* Open failed on a package file that does not parse, behind a good
\* container and a passed DRM check
C28_Witness ==
    /\ via = "Open"
    /\ st = "Failed"
    /\ err = "parse"
    /\ ~InputFileFails(containerPath)
    /\ InputUnparseable(<<"E","/","p",".","o","p","f">>)
    /\ fileCloses = 1

\* the manifest images whose href is the page's image reference up to
\* letter case, and those whose href is the reference exactly
InputImageRef ==
    zr.File[CHOOSE i \in 1..Len(zr.File) : zr.File[i].Data.kind = "xhtml"].Data.Img

FoldedImages ==
    {i \in 1..Len(InputOpf.Manifest) :
        /\ isImageMediaType(InputOpf.Manifest[i].MediaType)
        /\ ToLower(InputOpf.Manifest[i].Href) = ToLower(InputImageRef)}

ExactImages == {i \in FoldedImages : InputOpf.Manifest[i].Href = InputImageRef}

\* C29: for a given archive every call of cover() returns the same path and
\* media type, also when the cover page's image reference matches manifest
\* hrefs only up to letter case and more than one item matches.
C29_CoverDeterministic ==
    [][(lastOp = "Cover" /\ lastOp' = "Cover") =>
           (ret'.err = ret.err /\ ret'.Path = ret.Path /\ ret'.MediaType = ret.MediaType)]_vars

\* cover() has one possible result unless the reference matches several
\* images and none of them exactly
C29_OneResultUnlessAmbiguous ==
    BookOpen =>
        (Cardinality(Cover(book, readerOpen)) > 1
            <=> (ExactImages = {} /\ Cardinality(FoldedImages) > 1))

====
